---- MODULE Spec2Model ----
(***************************************************************************)
(* Model of the orphan-resource task handlers of inventory-extension-odg   *)
(* (pkg/odg/tasks), of the Delivery Service API client they call           *)
(* (pkg/odg/api/client) and of the remote Delivery Service store the       *)
(* client talks to.                                                        *)
(*                                                                         *)
(* A behaviour is a sequence of handler runs executed one after the other  *)
(* by one worker.  Each run is split at its blocking calls: the database   *)
(* query and every call of the API client.                                 *)
(***************************************************************************)
EXTENDS Integers, Sequences, FiniteSets, TLC

\* ------------------------------------------------------------------ bounds

\* Number of handler runs in a behaviour.
MaxRuns == 2

\* Largest number of rows a database query returns.
MaxRows == 2

\* ------------------------------------------------------- program constants

\* apitypes.ResourceKind
ResourceKindVirtualMachineAWS == "aws/virtual-machine"
ResourceKindVirtualMachineGCP == "gcp/virtual-machine"
ResourceKindVirtualMachineAzure == "az/virtual-machine"
ResourceKindVirtualMachineOpenStack == "openstack/virtual-machine"
ResourceKindIPAddressGCP == "gcp/public-ip-address"

Kinds ==
    { ResourceKindVirtualMachineAWS, ResourceKindVirtualMachineGCP,
      ResourceKindVirtualMachineAzure, ResourceKindVirtualMachineOpenStack,
      ResourceKindIPAddressGCP }

\* apitypes.ProviderName of the handler of each kind
ProviderName(k) ==
    CASE k = ResourceKindVirtualMachineAWS -> "aws"
      [] k = ResourceKindVirtualMachineGCP -> "gcp"
      [] k = ResourceKindVirtualMachineAzure -> "azure"
      [] k = ResourceKindVirtualMachineOpenStack -> "openstack"
      [] k = ResourceKindIPAddressGCP -> "gcp"

DatasourceInventory == "inventory"
DatatypeInventory == "finding/inventory"
DatatypeArtefactScanInfo == "meta/artefact_scan_info"
ArtefactKindRuntime == "runtime"
SeverityLevelHigh == "HIGH"

\* net/http status codes the remote service answers with in this model
StatusOK == 200
StatusCreated == 201
StatusNoContent == 204
StatusInternalServerError == 500

\* status codes the client has no case for: a client error and a server
\* error other than 500
OtherStatuses == { 404, 503 }

Statuses ==
    { StatusOK, StatusCreated, StatusNoContent, StatusInternalServerError }
        \cup OtherStatuses

\* MaybeSkipRetry: skipHTTPCodes
skipHTTPCodes == { StatusInternalServerError }

\* ------------------------------------------------------------------ errors

NoError == [class |-> "none", name |-> "", code |-> 0, skipRetry |-> FALSE]

\* ErrNoPayload, ErrNoQuery, ErrNoComponentName and the unmarshal error
ValidationError(n) ==
    [class |-> "validation", name |-> n, code |-> 0, skipRetry |-> FALSE]

\* the error db.NewRaw(query).Scan returns: the store rejects the query
\* ("query") or a row cannot be decoded into the destination ("scan")
DBError(n) == [class |-> "db", name |-> n, code |-> 0, skipRetry |-> FALSE]

\* APIErrorFromResponse: *APIError carrying the response's status code
APIError(code) ==
    [class |-> "api", name |-> "APIError", code |-> code, skipRetry |-> FALSE]

\* what httpClient.Do, io.ReadAll or json.Unmarshal return: not an *APIError
TransportError ==
    [class |-> "other", name |-> "transport", code |-> 0, skipRetry |-> FALSE]

\* asynqutils.SkipRetry(err): err wrapped with asynq.SkipRetry
SkipRetry(err) == [err EXCEPT !.skipRetry = TRUE]

ReturnOnDecodeError_Unwrapped(err) == err

\* `if err != nil { return asynqutils.SkipRetry(err) }` after DecodePayload
ReturnOnDecodeError(err) == SkipRetry(err)

MaybeSkipRetry_Generic5xx(err) ==
    IF err.class = "api" /\ err.code >= 500
    THEN [err EXCEPT !.skipRetry = TRUE]
    ELSE err

\* MaybeSkipRetry: an *APIError whose status code is in skipHTTPCodes is
\* wrapped with asynq.SkipRetry; every other error is returned as it is.
MaybeSkipRetry_SkipsUnknownErrors(err) ==
    IF err.class # "api" \/ err.code \in skipHTTPCodes
    THEN [err EXCEPT !.skipRetry = TRUE]
    ELSE err

MaybeSkipRetry(err) ==
    IF err.class = "api" /\ err.code \in skipHTTPCodes
    THEN [err EXCEPT !.skipRetry = TRUE]
    ELSE err

\* ---------------------------------------------------------------- payloads

\* t.Payload() of the task: nil, bytes that do not unmarshal, or an encoded
\* Payload{Query, ComponentName, ComponentVersion}.
EncodedPayload(q, cn, cv) ==
    [raw |-> "encoded", query |-> q, component_name |-> cn,
     component_version |-> cv]

NilPayload == [raw |-> "nil", query |-> "", component_name |-> "",
               component_version |-> ""]

GarbagePayload == [raw |-> "garbage", query |-> "", component_name |-> "",
                   component_version |-> ""]

\* the payload of the scheduled job
ValidPayloads == { EncodedPayload("SELECT", "c1", "v1") }

\* the payloads of jobs scheduled for other components and versions
OtherPayloads ==
    { EncodedPayload("SELECT", "c1", "v2"),
      EncodedPayload("SELECT", "c2", "v1") }

InvalidPayloads ==
    { NilPayload, GarbagePayload,
      EncodedPayload("", "c1", "v1"),
      EncodedPayload("SELECT", "", "v1") }

TaskPayloads == ValidPayloads \cup InvalidPayloads

DecodePayload_NoComponentNameCheck(t) ==
    IF t.raw = "nil" THEN ValidationError("ErrNoPayload")
    ELSE IF t.raw = "garbage" THEN ValidationError("unmarshal")
    ELSE IF t.query = "" THEN ValidationError("ErrNoQuery")
    ELSE NoError

\* DecodePayload: the error it returns (NoError when the payload decodes
\* and carries a query and a component name).
DecodePayload(t) ==
    IF t.raw = "nil" THEN ValidationError("ErrNoPayload")
    ELSE IF t.raw = "garbage" THEN ValidationError("unmarshal")
    ELSE IF t.query = "" THEN ValidationError("ErrNoQuery")
    ELSE IF t.component_name = "" THEN ValidationError("ErrNoComponentName")
    ELSE NoError

\* -------------------------------------------------------------------- rows

\* models.OrphanVirtualMachineAWS (the fields the handler reads)
RowsAWS ==
    { [instance_id |-> "i-1", vpc_id |-> "vpc-1", region_name |-> "eu-1",
       account_id |-> "123"],
      [instance_id |-> "i-2", vpc_id |-> "vpc-1", region_name |-> "eu-1",
       account_id |-> "123"] }

\* models.OrphanVirtualMachineGCP
RowsGCP ==
    { [name |-> "vm-1", instance_id |-> 7, project_id |-> "p-1"],
      [name |-> "vm-2", instance_id |-> 12, project_id |-> "p-1"] }

\* models.OrphanVirtualMachineAzure
RowsAzure ==
    { [name |-> "vm-1", subscription_id |-> "s-1", resource_group |-> "rg-1",
       location |-> "westeurope"],
      [name |-> "vm-1", subscription_id |-> "s-1", resource_group |-> "rg-2",
       location |-> "westeurope"] }

\* models.OrphanVirtualMachineOpenStack
RowsOpenStack ==
    { [server_id |-> "srv-1", name |-> "vm-1", project_id |-> "p-1"],
      [server_id |-> "srv-2", name |-> "vm-2", project_id |-> "p-1"] }

\* models.OrphanPublicAddressGCP: forwarding rules are named per project
\* and region, so two rules of one project can carry the same name
RowsPublicAddressGCP ==
    { [rule_id |-> 1, project_id |-> "p-1", name |-> "fr-1",
       region |-> "europe-west1"],
      [rule_id |-> 2, project_id |-> "p-1", name |-> "fr-1",
       region |-> "us-east1"],
      [rule_id |-> 3, project_id |-> "p-1", name |-> "fr-2",
       region |-> "europe-west1"] }

Rows(k) ==
    CASE k = ResourceKindVirtualMachineAWS -> RowsAWS
      [] k = ResourceKindVirtualMachineGCP -> RowsGCP
      [] k = ResourceKindVirtualMachineAzure -> RowsAzure
      [] k = ResourceKindVirtualMachineOpenStack -> RowsOpenStack
      [] k = ResourceKindIPAddressGCP -> RowsPublicAddressGCP

\* the results a query can have: every sequence of at most MaxRows rows
RowSeqs(k) == UNION { [1..n -> Rows(k)] : n \in 0..MaxRows }

\* ----------------------------------------------------------- finding mapper

Digit == <<"0", "1", "2", "3", "4", "5", "6", "7", "8", "9">>

RECURSIVE FormatUint(_)
\* strconv.FormatUint(n, 10)
FormatUint(n) ==
    IF n < 10 THEN Digit[n + 1]
    ELSE FormatUint(n \div 10) \o Digit[(n % 10) + 1]

\* LocalArtefactID.ArtefactName of the entries built from a row
ArtefactName(k, item) ==
    CASE k = ResourceKindVirtualMachineAWS -> item.instance_id
      [] k = ResourceKindVirtualMachineGCP -> item.name
      [] k = ResourceKindVirtualMachineAzure -> item.name
      [] k = ResourceKindVirtualMachineOpenStack -> item.name
      [] k = ResourceKindIPAddressGCP -> item.name

ArtefactExtraID_WithoutRegion(k, item) ==
    CASE k = ResourceKindVirtualMachineAWS ->
            [vpc_id |-> item.vpc_id, account_id |-> item.account_id]
      [] k = ResourceKindVirtualMachineGCP ->
            [instance_id |-> FormatUint(item.instance_id),
             project_id |-> item.project_id]
      [] k = ResourceKindVirtualMachineAzure ->
            [subscription_id |-> item.subscription_id,
             resource_group |-> item.resource_group]
      [] k = ResourceKindVirtualMachineOpenStack ->
            [server_id |-> item.server_id, project_id |-> item.project_id]
      [] k = ResourceKindIPAddressGCP ->
            [project_id |-> item.project_id, forwarding_rule |-> item.name]

\* LocalArtefactID.ArtefactExtraID of the entries built from a row
ArtefactExtraID(k, item) ==
    CASE k = ResourceKindVirtualMachineAWS ->
            [vpc_id |-> item.vpc_id, region_name |-> item.region_name,
             account_id |-> item.account_id]
      [] k = ResourceKindVirtualMachineGCP ->
            [instance_id |-> FormatUint(item.instance_id),
             project_id |-> item.project_id]
      [] k = ResourceKindVirtualMachineAzure ->
            [subscription_id |-> item.subscription_id,
             resource_group |-> item.resource_group,
             location |-> item.location]
      [] k = ResourceKindVirtualMachineOpenStack ->
            [server_id |-> item.server_id, project_id |-> item.project_id]
      [] k = ResourceKindIPAddressGCP ->
            [project_id |-> item.project_id, forwarding_rule |-> item.name]

\* Finding.ResourceName
ResourceName(k, item) ==
    CASE k = ResourceKindVirtualMachineAWS -> item.instance_id
      [] k = ResourceKindVirtualMachineGCP -> FormatUint(item.instance_id)
      [] k = ResourceKindVirtualMachineAzure -> item.name
      [] k = ResourceKindVirtualMachineOpenStack -> item.server_id
      [] k = ResourceKindIPAddressGCP -> item.project_id \o ":" \o item.name

\* apitypes.ComponentArtefactID built from a row (the same literal is used
\* for the finding, the scan info and the runtime artefact)
ComponentArtefactID(k, p, item) ==
    [component_name |-> p.component_name,
     component_version |-> p.component_version,
     artefact_kind |-> ArtefactKindRuntime,
     artefact |->
        [artefact_name |-> ArtefactName(k, item),
         artefact_type |-> k,
         artefact_version |-> p.component_version,
         artefact_extra_id |-> ArtefactExtraID(k, item)]]

NoData == [severity |-> "", provider_name |-> "", resource_kind |-> "",
           resource_name |-> "", attributes |-> <<>>]

\* apitypes.Finding built from a row
Finding(k, item) ==
    [severity |-> SeverityLevelHigh,
     provider_name |-> ProviderName(k),
     resource_kind |-> k,
     resource_name |-> ResourceName(k, item),
     attributes |-> item]

\* apitypes.ArtefactMetadata of datatype finding/inventory built from a row
\* (CreationDate, LastUpdate and DiscoveryDate, all time.Now(), are left out)
FindingEntry(k, p, item) ==
    [artefact |-> ComponentArtefactID(k, p, item),
     datasource |-> DatasourceInventory,
     type |-> DatatypeInventory,
     data |-> Finding(k, item)]

\* apitypes.ArtefactMetadata of datatype meta/artefact_scan_info
ScanInfoEntry(k, p, item) ==
    [artefact |-> ComponentArtefactID(k, p, item),
     datasource |-> DatasourceInventory,
     type |-> DatatypeArtefactScanInfo,
     data |-> NoData]

\* ----------------------------------------------------- the handlers' shape

\* the handlers that build scan-info entries and runtime artefacts and
\* query, delete and submit runtime artefacts
TracksRuntimeArtefacts(k) ==
    k \in { ResourceKindVirtualMachineAWS, ResourceKindVirtualMachineGCP,
            ResourceKindVirtualMachineOpenStack }

\* the handlers that write the discovered_resources and reported_resources
\* gauges
EmitsMetrics(k) ==
    k \in { ResourceKindVirtualMachineAWS,
            ResourceKindVirtualMachineOpenStack }

\* the handlers with `if len(artefacts) == 0 { return nil }` before the
\* submit
ReturnsBeforeEmptySubmit(k) ==
    k \in { ResourceKindVirtualMachineAzure, ResourceKindIPAddressGCP }

\* the `for _, item := range items` loop: the ArtefactMetadata items the
\* handler submits, in order (a finding and, where runtime artefacts are
\* tracked, a scan info per row)
RECURSIVE BuildArtefacts(_, _, _)
BuildArtefacts(k, p, its) ==
    IF its = <<>> THEN <<>>
    ELSE LET n == Len(its)
             item == its[n]
             built == IF TracksRuntimeArtefacts(k)
                      THEN << FindingEntry(k, p, item),
                              ScanInfoEntry(k, p, item) >>
                      ELSE << FindingEntry(k, p, item) >>
         IN  BuildArtefacts(k, p, SubSeq(its, 1, n - 1)) \o built

BuildRuntimeArtefacts_WithoutVersion(k, p, its) ==
    IF TracksRuntimeArtefacts(k)
    THEN [i \in 1..Len(its) |->
            [ComponentArtefactID(k, p, its[i])
                EXCEPT !.artefact.artefact_version = ""]]
    ELSE <<>>

\* the same loop: the runtime artefacts the handler submits
BuildRuntimeArtefacts(k, p, its) ==
    IF TracksRuntimeArtefacts(k)
    THEN [i \in 1..Len(its) |-> ComponentArtefactID(k, p, its[i])]
    ELSE <<>>

OldEntriesQuery_AnyType(k, p) ==
    [component_name |-> p.component_name,
     component_version |-> p.component_version,
     artefact_kind |-> ArtefactKindRuntime,
     artefact |->
        [artefact_name |-> "",
         artefact_type |-> "",
         artefact_version |-> "",
         artefact_extra_id |-> <<>>]]

\* the ComponentArtefactID the handler queries the old entries with; the
\* fields it leaves unset are empty and omitted from the request
OldEntriesQuery_AnyVersion(k, p) ==
    [component_name |-> p.component_name,
     component_version |-> "",
     artefact_kind |-> ArtefactKindRuntime,
     artefact |->
        [artefact_name |-> "",
         artefact_type |-> k,
         artefact_version |-> "",
         artefact_extra_id |-> <<>>]]

OldEntriesQuery(k, p) ==
    [component_name |-> p.component_name,
     component_version |-> p.component_version,
     artefact_kind |-> ArtefactKindRuntime,
     artefact |->
        [artefact_name |-> "",
         artefact_type |-> k,
         artefact_version |-> "",
         artefact_extra_id |-> <<>>]]

\* the labels the handler queries, deletes and submits runtime artefacts
\* with
RuntimeLabels(k, p) ==
    IF k = ResourceKindVirtualMachineGCP
    THEN ("created-by" :> DatasourceInventory) @@ ("resource-kind" :> k)
    ELSE ("created-by" :> DatasourceInventory) @@ ("resource-kind" :> k)
            @@ ("component-name" :> p.component_name)

NextStep_RuntimeArtefactsFirst(k, step, n) ==
    CASE step = "fetch" -> "query_old"
      [] step = "query_old" -> "delete_old"
      [] step = "delete_old" ->
            IF TracksRuntimeArtefacts(k) THEN "query_rt"
            ELSE IF ReturnsBeforeEmptySubmit(k) /\ n = 0 THEN "return"
            ELSE "submit"
      [] step = "query_rt" -> "delete_rt"
      [] step = "delete_rt" -> "submit_rt"
      [] step = "submit_rt" -> "submit"
      [] step = "submit" -> "return"

NextStep_DeleteAfterSubmit(k, step, n) ==
    CASE step = "fetch" -> "query_old"
      [] step = "query_old" -> "submit"
      [] step = "submit" -> "delete_old"
      [] step = "delete_old" ->
            IF TracksRuntimeArtefacts(k) THEN "query_rt" ELSE "return"
      [] step = "query_rt" -> "delete_rt"
      [] step = "delete_rt" -> "submit_rt"
      [] step = "submit_rt" -> "return"

\* The statement order of a handler: the blocking call that follows a
\* call that returned no error ("return": the handler returns nil).  n is
\* len(artefacts).
NextStep_ReturnsBeforeDeleteForNoRows(k, step, n) ==
    CASE step = "fetch" -> "query_old"
      [] step = "query_old" ->
            IF ReturnsBeforeEmptySubmit(k) /\ n = 0 THEN "return"
            ELSE "delete_old"
      [] step = "delete_old" ->
            IF TracksRuntimeArtefacts(k) THEN "query_rt" ELSE "submit"
      [] step = "query_rt" -> "delete_rt"
      [] step = "delete_rt" -> "submit"
      [] step = "submit" ->
            IF TracksRuntimeArtefacts(k) THEN "submit_rt" ELSE "return"
      [] step = "submit_rt" -> "return"

NextStep(k, step, n) ==
    CASE step = "fetch" -> "query_old"
      [] step = "query_old" -> "delete_old"
      [] step = "delete_old" ->
            IF TracksRuntimeArtefacts(k) THEN "query_rt"
            ELSE IF ReturnsBeforeEmptySubmit(k) /\ n = 0 THEN "return"
            ELSE "submit"
      [] step = "query_rt" -> "delete_rt"
      [] step = "delete_rt" -> "submit"
      [] step = "submit" ->
            IF TracksRuntimeArtefacts(k) THEN "submit_rt" ELSE "return"
      [] step = "submit_rt" -> "return"

\* --------------------------------------------------------------- API client

\* what a request ends with: no response at all (httpClient.Do fails), or a
\* response with a status code and a body that decodes or does not.
\* applied: whether the remote service carried the request out.
Responses ==
    { [transport |-> "ok", status |-> s, body |-> "ok",
       applied |-> (s \in {StatusOK, StatusCreated, StatusNoContent})] :
         s \in Statuses }
    \cup { [transport |-> "ok", status |-> StatusOK, body |-> "bad",
            applied |-> TRUE] }
    \cup { [transport |-> "fail", status |-> 0, body |-> "ok",
            applied |-> a] : a \in BOOLEAN }

\* the status codes each client method takes for success
AcceptedStatuses(op) ==
    CASE op = "QueryArtefactMetadata" -> { StatusOK }
      [] op = "DeleteArtefactMetadata" -> { StatusNoContent }
      [] op = "SubmitArtefactMetadata" -> { StatusOK, StatusCreated }
      [] op = "QueryRuntimeArtefacts" -> { StatusOK, StatusCreated }
      [] op = "DeleteRuntimeArtefacts" -> { StatusOK, StatusNoContent }
      [] op = "SubmitRuntimeArtefact" -> { StatusOK, StatusCreated }

\* the client methods that read and decode the response body
ReadsBody(op) == op \in { "QueryArtefactMetadata", "QueryRuntimeArtefacts" }

ClientError_TransportAsAPIError(op, resp) ==
    IF resp.transport = "fail" THEN APIError(resp.status)
    ELSE IF resp.status \notin AcceptedStatuses(op) THEN APIError(resp.status)
    ELSE IF ReadsBody(op) /\ resp.body = "bad"
         THEN [TransportError EXCEPT !.name = "decode"]
    ELSE NoError

\* the error a client method returns for a response
ClientError(op, resp) ==
    IF resp.transport = "fail" THEN TransportError
    ELSE IF resp.status \notin AcceptedStatuses(op) THEN APIError(resp.status)
    ELSE IF ReadsBody(op) /\ resp.body = "bad"
         THEN [TransportError EXCEPT !.name = "decode"]
    ELSE NoError

SendsRequest_Always(op, n) == TRUE

\* whether a client method called with n items sends a request: the
\* methods with `if len(items) == 0 { return nil }` send none for n = 0
SendsRequest(op, n) ==
    IF op \in { "QueryArtefactMetadata", "DeleteArtefactMetadata",
                "SubmitArtefactMetadata", "SubmitRuntimeArtefact" }
    THEN n > 0
    ELSE TRUE

\* ------------------------------------------------- remote Delivery Service

\* the key the service stores a metadata entry under
EntryKey(e) == [artefact |-> e.artefact, datasource |-> e.datasource,
                type |-> e.type]

\* POST /artefacts/metadata/query?type=<datatype>: the entries of the
\* datatype that agree with the query in every field the query sets
RemoteQueryMetadata(store, datatype, q) ==
    { e \in store :
        /\ e.type = datatype
        /\ q.component_name \in {"", e.artefact.component_name}
        /\ q.component_version \in {"", e.artefact.component_version}
        /\ q.artefact_kind \in {"", e.artefact.artefact_kind}
        /\ q.artefact.artefact_type \in {"", e.artefact.artefact.artefact_type}
        /\ q.artefact.artefact_name \in {"", e.artefact.artefact.artefact_name}
        /\ q.artefact.artefact_version
              \in {"", e.artefact.artefact.artefact_version} }

\* DELETE /artefacts/metadata: the given entries are removed
RemoteDeleteMetadata(store, entries) ==
    { e \in store : \A d \in entries : EntryKey(d) # EntryKey(e) }

\* PUT /artefacts/metadata: each entry is created, or replaces the entry
\* stored under its key
RECURSIVE RemotePutMetadata(_, _)
RemotePutMetadata(store, entries) ==
    IF entries = <<>> THEN store
    ELSE LET e == Head(entries)
         IN  RemotePutMetadata(
                { x \in store : EntryKey(x) # EntryKey(e) } \cup {e},
                Tail(entries))

\* whether a runtime artefact carries every label asked for
HasLabels(ra, labels) ==
    \A l \in DOMAIN labels :
        l \in DOMAIN ra.labels /\ ra.labels[l] = labels[l]

\* GET /service-extensions/runtime-artefacts?label=k:v&...
RemoteQueryRuntime(store, labels) == { ra \in store : HasLabels(ra, labels) }

\* metadata.name of a stored runtime artefact (assigned by the service)
RuntimeName(ra) == ra

\* DELETE /service-extensions/runtime-artefacts?name=...&name=...
\* deletes the runtime artefacts with the given names
RemoteDeleteRuntime(store, names) ==
    { ra \in store : RuntimeName(ra) \notin names }

\* PUT /service-extensions/runtime-artefacts: the artefacts are registered
\* under the given labels
RemotePutRuntime(store, labels, artefacts) ==
    store \cup { [labels |-> labels, artefact |-> artefacts[i]] :
                    i \in 1..Len(artefacts) }

\* ----------------------------------------------------------- configuration

\* Largest number of --config paths the start command is given.
MaxPaths == 2

ConfigFormatVersion == "v1alpha1"
ODGAuthMethodGithub == "github"
ODGAuthMethodNone == "none"

\* an error of the start command: of config.Parse, of newOdgClient, of
\* Authenticate, or of one of the constructors of the core library
StartError(n) ==
    [class |-> "start", name |-> n, code |-> 0, skipRetry |-> FALSE]

ErrNoConfigVersion == StartError("ErrNoConfigVersion")
ErrUnsupportedVersion == StartError("ErrUnsupportedVersion")

\* `var conf Config`: the settings of Config the start command reads
ZeroConfig ==
    [version |-> "", endpoint |-> "", method |-> "", url |-> "",
     token |-> ""]

\* a key a config file does not hold
Absent == "<absent>"

\* The config files on disk, by path: the keys each one holds. A file that
\* cannot be read or is not YAML has readable FALSE.
ConfigFile(readable, version, endpoint, method, url, token) ==
    [readable |-> readable, version |-> version, endpoint |-> endpoint,
     method |-> method, url |-> url, token |-> token]

ConfigFiles ==
    [ p \in { "base.yaml", "github.yaml", "token.yaml", "old.yaml",
              "blank.yaml", "minimal.yaml", "unreadable.yaml" } |->
        CASE p = "base.yaml" ->
               ConfigFile(TRUE, ConfigFormatVersion, "https://odg",
                          ODGAuthMethodNone, Absent, Absent)
          [] p = "github.yaml" ->
               ConfigFile(TRUE, ConfigFormatVersion, "https://odg",
                          ODGAuthMethodGithub, "https://api.github.com",
                          Absent)
          [] p = "token.yaml" ->
               ConfigFile(TRUE, Absent, Absent, Absent, Absent, "token")
          [] p = "old.yaml" ->
               ConfigFile(TRUE, "v1", "https://odg", ODGAuthMethodNone,
                          Absent, Absent)
          [] p = "blank.yaml" ->
               ConfigFile(TRUE, "", Absent, Absent, Absent, Absent)
          [] p = "minimal.yaml" ->
               ConfigFile(TRUE, ConfigFormatVersion, Absent, "basic",
                          Absent, Absent)
          [] OTHER ->
               ConfigFile(FALSE, Absent, Absent, Absent, Absent, Absent) ]

\* the values of the --config flag: a path of a file, or the empty string
ConfigPaths == DOMAIN ConfigFiles \cup { "" }

PathSeqs == UNION { [1..n -> ConfigPaths] : n \in 0..MaxPaths }

\* coreconfig.ParseFileInto(path, &conf): the YAML document of the file is
\* decoded into conf, which sets the keys the file holds and leaves the
\* others as they are; it fails for a file it cannot read or decode.
ParseFileInto(path, conf) ==
    LET file == ConfigFiles[path]
    IN  IF ~file.readable
        THEN [err |-> StartError("ParseFileInto"), conf |-> conf]
        ELSE [err |-> NoError,
              conf |-> [f \in DOMAIN conf |->
                          IF file[f] = Absent THEN conf[f] ELSE file[f]]]

\* the two checks of Parse after a file was parsed into conf
VersionError_OnlyOfTheFile(path, conf) ==
    IF ConfigFiles[path].version \in { Absent, ConfigFormatVersion }
    THEN NoError
    ELSE IF ConfigFiles[path].version = "" THEN ErrNoConfigVersion
    ELSE ErrUnsupportedVersion

VersionError(path, conf) ==
    IF conf.version = "" THEN ErrNoConfigVersion
    ELSE IF conf.version # ConfigFormatVersion THEN ErrUnsupportedVersion
    ELSE NoError

RECURSIVE ParseInto(_, _)
\* the loop of Parse over the paths that are left, conf being what the
\* paths before them were parsed into
ParseInto(paths, conf) ==
    IF paths = <<>> THEN [err |-> NoError, conf |-> conf]
    ELSE IF Head(paths) = "" THEN ParseInto(Tail(paths), conf)
    ELSE LET r == ParseFileInto(Head(paths), conf)
         IN  IF r.err # NoError
             THEN [err |-> r.err, conf |-> ZeroConfig]
             ELSE IF VersionError(Head(paths), r.conf) # NoError
             THEN [err |-> VersionError(Head(paths), r.conf),
                   conf |-> ZeroConfig]
             ELSE ParseInto(Tail(paths), r.conf)

\* config.Parse(paths...): the error, and the config where there is none
Parse(paths) == ParseInto(paths, ZeroConfig)

\* newOdgClient(conf): the error it returns
NewOdgClientError(conf) ==
    IF conf.endpoint = "" THEN StartError("odg: no api endpoint specified")
    ELSE IF conf.method = ""
    THEN StartError("odg: no auth method specified")
    ELSE IF conf.method = ODGAuthMethodGithub
    THEN IF conf.url = ""
         THEN StartError("odg: no github api url specified")
         ELSE IF conf.token = ""
         THEN StartError("odg: no github access token specified")
         ELSE NoError
    ELSE IF conf.method = ODGAuthMethodNone THEN NoError
    ELSE StartError("odg: unknown auth method")

\* what GET /auth ends with: no response, or a response with a status code
\* that sets the authentication cookie or does not
AuthResponses ==
    { [transport |-> "ok", status |-> s, cookie |-> c] :
        s \in Statuses, c \in BOOLEAN }
    \cup { [transport |-> "fail", status |-> 0, cookie |-> FALSE] }

\* Client.Authenticate of the client newOdgClient made from conf
AuthenticateError(conf, resp) ==
    IF conf.method # ODGAuthMethodGithub
    THEN StartError("ErrNoGithubAPIURL")
    ELSE IF conf.token = "" THEN StartError("ErrNoGithubToken")
    ELSE IF resp.transport # "ok" THEN TransportError
    ELSE IF resp.status # StatusOK THEN APIError(resp.status)
    ELSE IF ~resp.cookie THEN StartError("ErrNoAuthCookie")
    ELSE NoError

\* -------------------------------------------------------------------- state

VARIABLES
    metadata,            \* remote: the stored ArtefactMetadata entries
    runtime,             \* remote: the stored runtime artefacts
    gauges,              \* metrics.DefaultCollector: per kind, the
                         \*   discovered_resources and reported_resources
                         \*   gauge (-1: never written)
    runs,                \* number of runs started
    pc,                  \* the blocking call the running handler is at
    kind,                \* the resource kind of the running handler
    task,                \* the payload of the task it was given
    items,               \* the rows FetchResourcesFromDB scanned
    oldEntries,          \* what QueryArtefactMetadata returned
    oldRuntimeArtefacts, \* what QueryRuntimeArtefacts returned
    calls,               \* the blocking calls of this run, in order
    result,              \* the error the handler returned
    metadata0,           \* metadata when this run started
    runtime0,            \* runtime when this run started
    gauges0,             \* gauges when this run started
    prev,                \* the run before this one
    aborted,             \* the run this one retries, and the stores it
                         \*   started from (used by SpecRetry only)
    earlier,             \* the run before this one, with its calls and
                         \*   what it returned (used by SpecRuns only)
    reply,               \* a call of a client method on its own: what it
                         \*   was given and what it returned (used by
                         \*   SpecClient only)
    worker,              \* the worker process: how far its start command
                         \*   has come, the config it parsed and the calls
                         \*   of Authenticate (used by SpecWorker only)
    pair                 \* two handlers the worker runs at the same time
                         \*   (used by SpecPair only)

vars ==
    << metadata, runtime, gauges, runs, pc, kind, task, items,
       oldEntries, oldRuntimeArtefacts, calls, result, metadata0, runtime0,
       gauges0, prev, aborted, earlier, reply, worker, pair >>

remoteVars == << metadata, runtime >>
historyVars ==
    << metadata0, runtime0, gauges0, prev, aborted, earlier, reply, worker,
       runs >>

\* the decoded payload, the artefacts and the runtime artefacts of the run
payload == task
artefacts == BuildArtefacts(kind, payload, items)
runtimeArtefacts == BuildRuntimeArtefacts(kind, payload, items)
labels == RuntimeLabels(kind, payload)

NoRun == [kind |-> "", task |-> NilPayload, items |-> <<>>, ok |-> FALSE]

\* the worker process before its start command is run
NoWorker ==
    [step |-> "off", paths |-> <<>>, conf |-> ZeroConfig, auth |-> "",
     err |-> NoError, authCalls |-> 0, cookie |-> FALSE, client |-> FALSE]

NoReply ==
    [op |-> "", n |-> 0, transport |-> "", status |-> 0, body |-> "",
     sent |-> FALSE, err |-> NoError, result |-> {}]

NoEarlierRun ==
    [ended |-> FALSE, kind |-> "", task |-> NilPayload, items |-> <<>>,
     oldEntries |-> {}, oldRuntimeArtefacts |-> {}, calls |-> <<>>,
     result |-> NoError]

NoAbortedRun ==
    [retry |-> FALSE, task |-> NilPayload, items |-> <<>>,
     metadata0 |-> {}, runtime0 |-> {}]

\* What the remote service holds when the worker starts: nothing, or what
\* earlier successful runs left there: a run of the handler of kind k for
\* each payload, and a run of the handler of another kind.
OtherKind(k) ==
    IF k = ResourceKindVirtualMachineAWS
    THEN ResourceKindVirtualMachineOpenStack
    ELSE ResourceKindVirtualMachineAWS

\* a query result holding every row of the kind once
AllRows(k) ==
    CHOOSE s \in [1..Cardinality(Rows(k)) -> Rows(k)] :
        { s[i] : i \in DOMAIN s } = Rows(k)

EarlierRuns(k) ==
    { [kind |-> k, task |-> t, items |-> AllRows(k)] :
        t \in ValidPayloads \cup OtherPayloads }
    \cup { [kind |-> OtherKind(k), task |-> t,
            items |-> AllRows(OtherKind(k))] : t \in ValidPayloads }

EarlierMetadata(k) ==
    UNION { { BuildArtefacts(r.kind, r.task, r.items)[i] :
                i \in 1..Len(BuildArtefacts(r.kind, r.task, r.items)) } :
            r \in EarlierRuns(k) }

EarlierRuntime(k) ==
    UNION { RemotePutRuntime({}, RuntimeLabels(r.kind, r.task),
                BuildRuntimeArtefacts(r.kind, r.task, r.items)) :
            r \in EarlierRuns(k) }

Init ==
    /\ kind \in Kinds
    /\ \E seeded \in BOOLEAN :
         /\ metadata = IF seeded THEN EarlierMetadata(kind) ELSE {}
         /\ runtime = IF seeded THEN EarlierRuntime(kind) ELSE {}
    /\ gauges = [k \in Kinds |-> [discovered |-> -1, reported |-> -1]]
    /\ runs = 0
    /\ pc = "idle"
    /\ task = NilPayload
    /\ items = <<>>
    /\ oldEntries = {}
    /\ oldRuntimeArtefacts = {}
    /\ calls = <<>>
    /\ result = NoError
    /\ metadata0 = metadata
    /\ runtime0 = runtime
    /\ gauges0 = gauges
    /\ prev = NoRun
    /\ aborted = NoAbortedRun
    /\ earlier = NoEarlierRun
    /\ reply = NoReply
    /\ worker = NoWorker
    /\ pair = <<>>

\* ------------------------------------------------------------------ actions

\* a blocking call: whether a request was sent, and the error it returned
Call(op, sent, err) == [op |-> op, sent |-> sent, err |-> err]

Return_WritesReportedGauge(err) ==
    /\ pc' = "done"
    /\ result' = err
    /\ gauges' = IF EmitsMetrics(kind)
                 THEN [gauges EXCEPT ![kind].reported = Len(items)]
                 ELSE gauges

\* `return err`
Return(err) ==
    /\ pc' = "done"
    /\ result' = err
    /\ UNCHANGED gauges

ReturnNil_WithoutReportedGauge ==
    /\ pc' = "done"
    /\ result' = NoError
    /\ UNCHANGED gauges

\* the end of the handler: the reported_resources gauge is written by the
\* handlers that have one, and nil is returned
ReturnNil ==
    /\ pc' = "done"
    /\ result' = NoError
    /\ gauges' = IF EmitsMetrics(kind)
                 THEN [gauges EXCEPT ![kind].reported = Len(items)]
                 ELSE gauges

Continue_IgnoresQueryError(step, err) ==
    IF err # NoError /\ step # "query_old" THEN Return(MaybeSkipRetry(err))
    ELSE LET next == NextStep(kind, step, Len(artefacts))
         IN  IF next = "return" THEN ReturnNil
             ELSE pc' = next /\ UNCHANGED << result, gauges >>

Continue_SwallowsRuntimeSubmitError(step, err) ==
    IF err # NoError /\ step # "submit_rt" THEN Return(MaybeSkipRetry(err))
    ELSE LET next == NextStep(kind, step, Len(artefacts))
         IN  IF next = "return" THEN ReturnNil
             ELSE pc' = next /\ UNCHANGED << result, gauges >>

Continue_QueriesAgainAfterDelete(step, err) ==
    IF err # NoError THEN Return(MaybeSkipRetry(err))
    ELSE IF step = "delete_old" /\ Len(calls) < 3
         THEN pc' = "query_old" /\ UNCHANGED << result, gauges >>
    ELSE LET next == NextStep(kind, step, Len(artefacts))
         IN  IF next = "return" THEN ReturnNil
             ELSE pc' = next /\ UNCHANGED << result, gauges >>

Continue_ReturnsEarlyWhenReportedBefore(step, err) ==
    IF err # NoError THEN Return(MaybeSkipRetry(err))
    ELSE IF step = "query_old" /\ gauges[kind].reported = Len(items)
         THEN ReturnNil
    ELSE LET next == NextStep(kind, step, Len(artefacts))
         IN  IF next = "return" THEN ReturnNil
             ELSE pc' = next /\ UNCHANGED << result, gauges >>

\* a blocking call returned err: the handler returns it through
\* MaybeSkipRetry, or goes on to the next call
Continue(step, err) ==
    IF err # NoError THEN Return(MaybeSkipRetry(err))
    ELSE LET next == NextStep(kind, step, Len(artefacts))
         IN  IF next = "return" THEN ReturnNil
             ELSE pc' = next /\ UNCHANGED << result, gauges >>

\* The worker hands a task to the handler of kind k, which decodes the
\* payload: a payload that does not validate is returned with SkipRetry.
Begin(k, t) ==
    /\ pc \in {"idle", "done"}
    /\ runs < MaxRuns
    /\ runs' = runs + 1
    /\ prev' = IF pc = "done" /\ result = NoError
               THEN [kind |-> kind, task |-> task, items |-> items,
                     ok |-> TRUE]
               ELSE NoRun
    /\ metadata0' = metadata
    /\ runtime0' = runtime
    /\ gauges0' = gauges
    /\ kind' = k
    /\ task' = t
    /\ items' = <<>>
    /\ oldEntries' = {}
    /\ oldRuntimeArtefacts' = {}
    /\ calls' = <<>>
    /\ LET err == DecodePayload(t)
       IN  IF err # NoError
           THEN pc' = "done" /\ result' = ReturnOnDecodeError(err)
           ELSE pc' = "fetch" /\ result' = NoError
    /\ UNCHANGED << remoteVars, gauges, reply, worker, pair >>

StartRun(k, t) == Begin(k, t) /\ UNCHANGED << aborted, earlier >>

\* FetchResourcesFromDB returns rows: the handlers with metrics write the
\* discovered_resources gauge, and the artefacts are built.
FetchRows(rows) ==
    /\ pc = "fetch"
    /\ items' = rows
    /\ calls' = Append(calls, Call("FetchResourcesFromDB", TRUE, NoError))
    /\ gauges' = IF EmitsMetrics(kind)
                 THEN [gauges EXCEPT ![kind].discovered = Len(rows)]
                 ELSE gauges
    /\ pc' = NextStep(kind, "fetch", 0)
    /\ UNCHANGED << remoteVars, historyVars, pair, kind, task, oldEntries,
                    oldRuntimeArtefacts, result >>

FetchFails_SkipRetry(e) ==
    /\ pc = "fetch"
    /\ calls' = Append(calls, Call("FetchResourcesFromDB", TRUE, DBError(e)))
    /\ Return(SkipRetry(DBError(e)))
    /\ UNCHANGED << remoteVars, historyVars, pair, kind, task, items, oldEntries,
                    oldRuntimeArtefacts >>

\* FetchResourcesFromDB fails: the error is returned as it is.
FetchFails(e) ==
    /\ pc = "fetch"
    /\ calls' = Append(calls, Call("FetchResourcesFromDB", TRUE, DBError(e)))
    /\ Return(DBError(e))
    /\ UNCHANGED << remoteVars, historyVars, pair, kind, task, items, oldEntries,
                    oldRuntimeArtefacts >>

\* Client.QueryArtefactMetadata(ctx, datatype, items...) called with the
\* queries qs and answered with resp: whether a request was sent, the error
\* and the entries returned
QueryArtefactMetadata(store, datatype, qs, resp) ==
    LET op == "QueryArtefactMetadata"
        sent == SendsRequest(op, Cardinality(qs))
        err == IF sent THEN ClientError(op, resp) ELSE NoError
    IN  [sent |-> sent,
         err |-> err,
         result |-> IF sent /\ err = NoError
                    THEN UNION { RemoteQueryMetadata(store, datatype, q) :
                                   q \in qs }
                    ELSE {}]

\* odgclient.Client.QueryArtefactMetadata(ctx, DatatypeInventory, query)
QueryOld(resp) ==
    /\ pc = "query_old"
    /\ LET r == QueryArtefactMetadata(metadata, DatatypeInventory,
                                      { OldEntriesQuery(kind, payload) },
                                      resp)
       IN  /\ calls' = Append(calls, Call("QueryArtefactMetadata",
                                          r.sent, r.err))
           /\ oldEntries' = r.result
           /\ Continue("query_old", r.err)
    /\ UNCHANGED << remoteVars, historyVars, pair, kind, task, items,
                    oldRuntimeArtefacts >>

\* odgclient.Client.DeleteArtefactMetadata(ctx, oldEntries...)
DeleteOld(resp) ==
    /\ pc = "delete_old"
    /\ LET op == "DeleteArtefactMetadata"
           sent == SendsRequest(op, Cardinality(oldEntries))
           err == IF sent THEN ClientError(op, resp) ELSE NoError
       IN  /\ calls' = Append(calls, Call(op, sent, err))
           /\ metadata' = IF sent /\ resp.applied
                          THEN RemoteDeleteMetadata(metadata, oldEntries)
                          ELSE metadata
           /\ Continue("delete_old", err)
    /\ UNCHANGED << runtime, historyVars, pair, kind, task, items,
                    oldEntries, oldRuntimeArtefacts >>

\* The same call, answered with an error by a service that had removed
\* only some of the entries: part, and not the rest.
DeleteOldPartly(resp, part) ==
    /\ pc = "delete_old"
    /\ part \in (SUBSET oldEntries) \ { {}, oldEntries }
    /\ resp.applied
    /\ LET op == "DeleteArtefactMetadata"
           err == ClientError(op, resp)
       IN  /\ err # NoError
           /\ calls' = Append(calls, Call(op, TRUE, err))
           /\ metadata' = RemoteDeleteMetadata(metadata, part)
           /\ Continue("delete_old", err)
    /\ UNCHANGED << runtime, historyVars, pair, kind, task, items,
                    oldEntries, oldRuntimeArtefacts >>

\* odgclient.Client.QueryRuntimeArtefacts(ctx, labels)
QueryRuntime(resp) ==
    /\ pc = "query_rt"
    /\ LET op == "QueryRuntimeArtefacts"
           err == ClientError(op, resp)
       IN  /\ calls' = Append(calls, Call(op, SendsRequest(op, 1), err))
           /\ oldRuntimeArtefacts' =
                IF err = NoError THEN RemoteQueryRuntime(runtime, labels)
                ELSE {}
           /\ Continue("query_rt", err)
    /\ UNCHANGED << remoteVars, historyVars, pair, kind, task, items, oldEntries >>

\* odgclient.Client.DeleteRuntimeArtefacts(ctx, runtimeArtefactNames...)
DeleteRuntime(resp) ==
    /\ pc = "delete_rt"
    /\ LET op == "DeleteRuntimeArtefacts"
           names == { RuntimeName(ra) : ra \in oldRuntimeArtefacts }
           sent == SendsRequest(op, Cardinality(names))
           err == IF sent THEN ClientError(op, resp) ELSE NoError
       IN  /\ calls' = Append(calls, Call(op, sent, err))
           /\ runtime' = IF sent /\ resp.applied
                         THEN RemoteDeleteRuntime(runtime, names)
                         ELSE runtime
           /\ Continue("delete_rt", err)
    /\ UNCHANGED << metadata, historyVars, pair, kind, task, items,
                    oldEntries, oldRuntimeArtefacts >>

\* The same call, answered with an error by a service that had removed
\* one of the runtime artefacts, and not the rest.
DeleteRuntimePartly(resp, part) ==
    /\ pc = "delete_rt"
    /\ part \in (SUBSET oldRuntimeArtefacts) \ { {}, oldRuntimeArtefacts }
    /\ Cardinality(part) = 1
    /\ resp.applied
    /\ LET op == "DeleteRuntimeArtefacts"
           err == ClientError(op, resp)
       IN  /\ err # NoError
           /\ calls' = Append(calls, Call(op, TRUE, err))
           /\ runtime' = RemoteDeleteRuntime(runtime,
                            { RuntimeName(ra) : ra \in part })
           /\ Continue("delete_rt", err)
    /\ UNCHANGED << metadata, historyVars, pair, kind, task, items,
                    oldEntries, oldRuntimeArtefacts >>

\* odgclient.Client.SubmitArtefactMetadata(ctx, artefacts...)
Submit(resp) ==
    /\ pc = "submit"
    /\ LET op == "SubmitArtefactMetadata"
           sent == SendsRequest(op, Len(artefacts))
           err == IF sent THEN ClientError(op, resp) ELSE NoError
       IN  /\ calls' = Append(calls, Call(op, sent, err))
           /\ metadata' = IF sent /\ resp.applied
                          THEN RemotePutMetadata(metadata, artefacts)
                          ELSE metadata
           /\ Continue("submit", err)
    /\ UNCHANGED << runtime, historyVars, pair, kind, task, items,
                    oldEntries, oldRuntimeArtefacts >>

\* odgclient.Client.SubmitRuntimeArtefact(ctx, labels, runtimeArtefacts...)
SubmitRuntime(resp) ==
    /\ pc = "submit_rt"
    /\ LET op == "SubmitRuntimeArtefact"
           sent == SendsRequest(op, Len(runtimeArtefacts))
           err == IF sent THEN ClientError(op, resp) ELSE NoError
       IN  /\ calls' = Append(calls, Call(op, sent, err))
           /\ runtime' = IF sent /\ resp.applied
                         THEN RemotePutRuntime(runtime, labels,
                                               runtimeArtefacts)
                         ELSE runtime
           /\ Continue("submit_rt", err)
    /\ UNCHANGED << metadata, historyVars, pair, kind, task, items,
                    oldEntries, oldRuntimeArtefacts >>

Next ==
    \/ \E t \in TaskPayloads : StartRun(kind, t)
    \/ \E rows \in RowSeqs(kind) : FetchRows(rows)
    \/ \E e \in {"query", "scan"} : FetchFails(e)
    \/ \E resp \in Responses : QueryOld(resp)
    \/ \E resp \in Responses : DeleteOld(resp)
    \/ \E resp \in Responses : QueryRuntime(resp)
    \/ \E resp \in Responses : DeleteRuntime(resp)
    \/ \E resp \in Responses : Submit(resp)
    \/ \E resp \in Responses : SubmitRuntime(resp)

Spec == Init /\ [][Next]_vars

\* ----------------------------------------------------- a run and its retry

\* The queue retries a task whose handler returned an error: SpecRetry
\* follows one run and, where it failed at a call to the service, the run
\* that retries it. The service may have applied a delete it answered with
\* an error, wholly or in part.

\* the run that ended failed at a call to the service
AbortedAtService ==
    /\ pc = "done"
    /\ result # NoError
    /\ calls # <<>>
    /\ calls[Len(calls)].op # "FetchResourcesFromDB"

StartRetry(k, t) ==
    /\ runs = 0 \/ (runs = 1 /\ AbortedAtService)
    /\ Begin(k, t)
    /\ aborted' = IF AbortedAtService
                  THEN [retry |-> TRUE, task |-> task, items |-> items,
                        metadata0 |-> metadata0, runtime0 |-> runtime0]
                  ELSE NoAbortedRun
    /\ UNCHANGED earlier

NextRetry ==
    \/ \E t \in TaskPayloads : StartRetry(kind, t)
    \/ \E rows \in RowSeqs(kind) : FetchRows(rows)
    \/ \E e \in {"query", "scan"} : FetchFails(e)
    \/ \E resp \in Responses : QueryOld(resp)
    \/ \E resp \in Responses : DeleteOld(resp)
    \/ \E resp \in Responses : \E part \in SUBSET oldEntries :
          DeleteOldPartly(resp, part)
    \/ \E resp \in Responses : QueryRuntime(resp)
    \/ \E resp \in Responses : DeleteRuntime(resp)
    \/ \E resp \in Responses : \E part \in SUBSET oldRuntimeArtefacts :
          DeleteRuntimePartly(resp, part)
    \/ \E resp \in Responses : Submit(resp)
    \/ \E resp \in Responses : SubmitRuntime(resp)

SpecRetry == Init /\ [][NextRetry]_vars

\* ------------------------------------------------- two handlers at a time

\* The worker processes tasks concurrently: two handlers, each with its own
\* locals, run against the one Delivery Service and the one metrics
\* collector, and their blocking calls interleave in any order.

\* the longest query result of a handler of SpecPair
MaxPairRows == 1

PairRowSeqs(k) == UNION { [1..n -> Rows(k)] : n \in 0..MaxPairRows }

\* both tasks carry the same component name and version
PairPayload == EncodedPayload("SELECT", "c1", "v1")

\* the answers of the service in SpecPair: each call has an accepted and a
\* rejected one among them
PairResponses ==
    { r \in Responses :
        /\ r.transport = "ok"
        /\ r.body = "ok"
        /\ r.status \in { StatusOK, StatusNoContent,
                          StatusInternalServerError } }

\* the locals of a handler that has decoded its payload
NewRun(k) ==
    [pc |-> "fetch", kind |-> k, items |-> <<>>, oldEntries |-> {},
     oldRuntimeArtefacts |-> {}, deleted |-> FALSE, result |-> NoError]

\* the kinds in the order of their declaration
KindOrder ==
    << ResourceKindVirtualMachineAWS, ResourceKindVirtualMachineGCP,
       ResourceKindVirtualMachineAzure, ResourceKindVirtualMachineOpenStack,
       ResourceKindIPAddressGCP >>

\* The two handlers are alike but for their kinds, so each pair of kinds
\* is started in one order only.
PairInit ==
    /\ kind \in Kinds
    /\ \E i, j \in DOMAIN KindOrder, seeded \in BOOLEAN :
       LET k2 == KindOrder[j] IN
         /\ i <= j
         /\ kind = KindOrder[i]
         /\ pair = << NewRun(kind), NewRun(k2) >>
         /\ metadata = IF seeded
                       THEN EarlierMetadata(kind) \cup EarlierMetadata(k2)
                       ELSE {}
         /\ runtime = IF seeded
                      THEN EarlierRuntime(kind) \cup EarlierRuntime(k2)
                      ELSE {}
    /\ gauges = [k \in Kinds |-> [discovered |-> -1, reported |-> -1]]
    /\ runs = 0
    /\ pc = "idle"
    /\ task = NilPayload
    /\ items = <<>>
    /\ oldEntries = {}
    /\ oldRuntimeArtefacts = {}
    /\ calls = <<>>
    /\ result = NoError
    /\ metadata0 = metadata
    /\ runtime0 = runtime
    /\ gauges0 = gauges
    /\ prev = NoRun
    /\ aborted = NoAbortedRun
    /\ earlier = NoEarlierRun
    /\ reply = NoReply
    /\ worker = NoWorker

\* the variables of the one-handler specification
singleVars ==
    << runs, pc, kind, task, items, oldEntries, oldRuntimeArtefacts, calls,
       result, metadata0, runtime0, gauges0, prev, aborted, earlier,
       reply, worker >>

\* the locals of handler run after the call of step returned err
After(run, step, err) ==
    IF err # NoError
    THEN [run EXCEPT !.pc = "done", !.result = MaybeSkipRetry(err)]
    ELSE LET n == Len(BuildArtefacts(run.kind, PairPayload, run.items))
             next == NextStep(run.kind, step, n)
         IN  [run EXCEPT !.pc = IF next = "return" THEN "done" ELSE next]

\* handler r moves on: the reported_resources gauge is written where the
\* handler returns nil
PairContinue(r, run, step, err) ==
    LET after == After(run, step, err)
    IN  /\ pair' = [pair EXCEPT ![r] = after]
        /\ gauges' = IF /\ after.pc = "done"
                        /\ after.result = NoError
                        /\ EmitsMetrics(run.kind)
                     THEN [gauges EXCEPT
                              ![run.kind].reported = Len(run.items)]
                     ELSE gauges

PairFetchRows(r, rows) ==
    /\ pair[r].pc = "fetch"
    /\ pair' = [pair EXCEPT ![r].items = rows,
                            ![r].pc = NextStep(pair[r].kind, "fetch", 0)]
    /\ gauges' = IF EmitsMetrics(pair[r].kind)
                 THEN [gauges EXCEPT
                          ![pair[r].kind].discovered = Len(rows)]
                 ELSE gauges
    /\ UNCHANGED << remoteVars, singleVars >>

PairFetchFails(r) ==
    /\ pair[r].pc = "fetch"
    /\ pair' = [pair EXCEPT ![r].pc = "done",
                            ![r].result = DBError("query")]
    /\ UNCHANGED << remoteVars, gauges, singleVars >>

PairQueryOld(r, resp) ==
    /\ pair[r].pc = "query_old"
    /\ LET err == ClientError("QueryArtefactMetadata", resp)
           found == IF err = NoError
                    THEN RemoteQueryMetadata(metadata, DatatypeInventory,
                            OldEntriesQuery(pair[r].kind, PairPayload))
                    ELSE {}
       IN  PairContinue(r, [pair[r] EXCEPT !.oldEntries = found],
                        "query_old", err)
    /\ UNCHANGED << remoteVars, singleVars >>

PairDeleteOld(r, resp) ==
    /\ pair[r].pc = "delete_old"
    /\ LET op == "DeleteArtefactMetadata"
           sent == SendsRequest(op, Cardinality(pair[r].oldEntries))
           err == IF sent THEN ClientError(op, resp) ELSE NoError
       IN  /\ metadata' =
                IF sent /\ resp.applied
                THEN RemoteDeleteMetadata(metadata, pair[r].oldEntries)
                ELSE metadata
           /\ PairContinue(r, [pair[r] EXCEPT
                                  !.deleted = sent /\ resp.applied],
                           "delete_old", err)
    /\ UNCHANGED << runtime, singleVars >>

PairQueryRuntime(r, resp) ==
    /\ pair[r].pc = "query_rt"
    /\ LET err == ClientError("QueryRuntimeArtefacts", resp)
           found == IF err = NoError
                    THEN RemoteQueryRuntime(runtime,
                            RuntimeLabels(pair[r].kind, PairPayload))
                    ELSE {}
       IN  PairContinue(r, [pair[r] EXCEPT !.oldRuntimeArtefacts = found],
                        "query_rt", err)
    /\ UNCHANGED << remoteVars, singleVars >>

PairDeleteRuntime(r, resp) ==
    /\ pair[r].pc = "delete_rt"
    /\ LET op == "DeleteRuntimeArtefacts"
           names == { RuntimeName(ra) : ra \in pair[r].oldRuntimeArtefacts }
           sent == SendsRequest(op, Cardinality(names))
           err == IF sent THEN ClientError(op, resp) ELSE NoError
       IN  /\ runtime' = IF sent /\ resp.applied
                         THEN RemoteDeleteRuntime(runtime, names)
                         ELSE runtime
           /\ PairContinue(r, pair[r], "delete_rt", err)
    /\ UNCHANGED << metadata, singleVars >>

PairSubmit(r, resp) ==
    /\ pair[r].pc = "submit"
    /\ LET op == "SubmitArtefactMetadata"
           built == BuildArtefacts(pair[r].kind, PairPayload, pair[r].items)
           sent == SendsRequest(op, Len(built))
           err == IF sent THEN ClientError(op, resp) ELSE NoError
       IN  /\ metadata' = IF sent /\ resp.applied
                          THEN RemotePutMetadata(metadata, built)
                          ELSE metadata
           /\ PairContinue(r, pair[r], "submit", err)
    /\ UNCHANGED << runtime, singleVars >>

PairSubmitRuntime(r, resp) ==
    /\ pair[r].pc = "submit_rt"
    /\ LET op == "SubmitRuntimeArtefact"
           built == BuildRuntimeArtefacts(pair[r].kind, PairPayload,
                                          pair[r].items)
           sent == SendsRequest(op, Len(built))
           err == IF sent THEN ClientError(op, resp) ELSE NoError
       IN  /\ runtime' =
                IF sent /\ resp.applied
                THEN RemotePutRuntime(runtime,
                        RuntimeLabels(pair[r].kind, PairPayload), built)
                ELSE runtime
           /\ PairContinue(r, pair[r], "submit_rt", err)
    /\ UNCHANGED << metadata, singleVars >>

PairNext ==
    \/ \E r \in 1..2 : \E rows \in PairRowSeqs(pair[r].kind) :
          PairFetchRows(r, rows)
    \/ \E r \in 1..2 : PairFetchFails(r)
    \/ \E r \in 1..2 : \E resp \in PairResponses : PairQueryOld(r, resp)
    \/ \E r \in 1..2 : \E resp \in PairResponses : PairDeleteOld(r, resp)
    \/ \E r \in 1..2 : \E resp \in PairResponses : PairQueryRuntime(r, resp)
    \/ \E r \in 1..2 : \E resp \in PairResponses : PairDeleteRuntime(r, resp)
    \/ \E r \in 1..2 : \E resp \in PairResponses : PairSubmit(r, resp)
    \/ \E r \in 1..2 : \E resp \in PairResponses : PairSubmitRuntime(r, resp)

SpecPair == PairInit /\ [][PairNext]_vars

\* ------------------------------------------------- two runs in one process

\* SpecRuns follows the first run of a handler in the worker process and
\* the run of the same handler after it, and keeps the calls of the first
\* and what it returned.
StartSecond(k, t) ==
    /\ runs = 0 \/ (runs = 1 /\ pc = "done")
    /\ Begin(k, t)
    /\ earlier' = IF pc = "done"
                  THEN [ended |-> TRUE, kind |-> kind, task |-> task,
                        items |-> items, oldEntries |-> oldEntries,
                        oldRuntimeArtefacts |-> oldRuntimeArtefacts,
                        calls |-> calls, result |-> result]
                  ELSE NoEarlierRun
    /\ UNCHANGED aborted

NextRuns ==
    \/ \E t \in TaskPayloads : StartSecond(kind, t)
    \/ \E rows \in PairRowSeqs(kind) : FetchRows(rows)
    \/ \E e \in {"query", "scan"} : FetchFails(e)
    \/ \E resp \in Responses : QueryOld(resp)
    \/ \E resp \in Responses : DeleteOld(resp)
    \/ \E resp \in Responses : QueryRuntime(resp)
    \/ \E resp \in Responses : DeleteRuntime(resp)
    \/ \E resp \in Responses : Submit(resp)
    \/ \E resp \in Responses : SubmitRuntime(resp)

SpecRuns == Init /\ [][NextRuns]_vars

\* ------------------------------------------------- one run, calls return

\* SpecFair follows one run of a handler, from the decoding of the payload,
\* in which every blocking call returns: the steps of the run are weakly
\* fair.
StartOnce(k, t) ==
    /\ runs = 0
    /\ Begin(k, t)
    /\ UNCHANGED << aborted, earlier >>

\* a blocking call of the run returns
RunStep ==
    \/ \E rows \in RowSeqs(kind) : FetchRows(rows)
    \/ \E e \in {"query", "scan"} : FetchFails(e)
    \/ \E resp \in Responses : QueryOld(resp)
    \/ \E resp \in Responses : DeleteOld(resp)
    \/ \E resp \in Responses : QueryRuntime(resp)
    \/ \E resp \in Responses : DeleteRuntime(resp)
    \/ \E resp \in Responses : Submit(resp)
    \/ \E resp \in Responses : SubmitRuntime(resp)

NextFair ==
    \/ \E t \in TaskPayloads : StartOnce(kind, t)
    \/ RunStep

SpecFair == Init /\ [][NextFair]_vars /\ WF_vars(RunStep)

\* ------------------------------------------------- the client on its own

\* the methods of the client the handlers call
ClientMethods ==
    { "QueryArtefactMetadata", "DeleteArtefactMetadata",
      "SubmitArtefactMetadata", "QueryRuntimeArtefacts",
      "DeleteRuntimeArtefacts", "SubmitRuntimeArtefact" }

\* SpecClient calls the methods of the client one by one, each with n
\* items and every answer of the service, and keeps what the method
\* returned: the error, and for the two queries the result.
ClientCall(op, n, resp) ==
    /\ pc = "idle"
    /\ LET sent == SendsRequest(op, n)
           err == IF sent THEN ClientError(op, resp) ELSE NoError
           found ==
             CASE op = "QueryArtefactMetadata" ->
                    QueryArtefactMetadata(metadata, DatatypeInventory,
                        IF n = 0 THEN {}
                        ELSE { OldEntriesQuery(kind, PairPayload) },
                        resp).result
               [] op = "QueryRuntimeArtefacts" ->
                    IF err = NoError
                    THEN RemoteQueryRuntime(runtime,
                            RuntimeLabels(kind, PairPayload))
                    ELSE {}
               [] OTHER -> {}
       IN  reply' = [op |-> op, n |-> n, transport |-> resp.transport,
                     status |-> resp.status, body |-> resp.body,
                     sent |-> sent, err |-> err, result |-> found]
    /\ UNCHANGED << metadata, runtime, gauges, runs, pc, kind, task, items,
                    oldEntries, oldRuntimeArtefacts, calls, result,
                    metadata0, runtime0, gauges0, prev, aborted, earlier,
                    worker, pair >>

NextClient ==
    \E op \in ClientMethods : \E n \in 0..MaxRows : \E resp \in Responses :
        ClientCall(op, n, resp)

SpecClient == Init /\ [][NextClient]_vars

\* ------------------------------------------------- the worker's start-up

\* SpecWorker follows execWorkerStartCommand from the --config paths it is
\* given to worker.Run, and the runs of the handlers the worker then makes.
\* Each action is one step of the command that can fail and end it.

runVars ==
    << metadata, runtime, gauges, runs, pc, kind, task, items, oldEntries,
       oldRuntimeArtefacts, calls, result, metadata0, runtime0, gauges0,
       prev, aborted, earlier, reply, pair >>

\* `return err`: the start command ends, the worker does not run
Exit(err) == [worker EXCEPT !.step = "exit", !.err = err]

\* the command is run with the values of its --config flag
StartCommand(paths) ==
    /\ worker.step = "off"
    /\ worker' = [worker EXCEPT !.step = "parse", !.paths = paths]
    /\ UNCHANGED runVars

\* conf, err := config.Parse(configPaths...)
ParseConfig ==
    /\ worker.step = "parse"
    /\ LET r == Parse(worker.paths)
       IN  worker' = IF r.err # NoError THEN Exit(r.err)
                     ELSE [worker EXCEPT !.step = "logger",
                                         !.conf = r.conf]
    /\ UNCHANGED runVars

\* slogutils.NewFromConfig and newDB with dbclient.SetDB: constructors of
\* the core library, each of which returns an error or does not
NewLogger(ok) ==
    /\ worker.step = "logger"
    /\ worker' = IF ok THEN [worker EXCEPT !.step = "db"]
                 ELSE Exit(StartError("slogutils.NewFromConfig"))
    /\ UNCHANGED runVars

NewDB(ok) ==
    /\ worker.step = "db"
    /\ worker' = IF ok THEN [worker EXCEPT !.step = "client"]
                 ELSE Exit(StartError("newDB"))
    /\ UNCHANGED runVars

\* odgClient, err := newOdgClient(conf), and the test of the auth method
\* that follows it
NewOdgClient ==
    /\ worker.step = "client"
    /\ LET err == NewOdgClientError(worker.conf)
           w == [worker EXCEPT !.auth = worker.conf.method]
       IN  worker' = IF err # NoError THEN Exit(err)
                     ELSE IF worker.conf.method # ODGAuthMethodNone
                     THEN [w EXCEPT !.step = "auth"]
                     ELSE [w EXCEPT !.step = "set"]
    /\ UNCHANGED runVars

\* odgClient.Authenticate(ctx.Context) returns
Authenticate_StartsTheWorkerAnyway(resp) ==
    /\ worker.step = "auth"
    /\ LET err == AuthenticateError(worker.conf, resp)
       IN  worker' = [worker EXCEPT !.authCalls = worker.authCalls + 1,
                                    !.cookie = (err = NoError),
                                    !.step = "set"]
    /\ UNCHANGED runVars

Authenticate(resp) ==
    /\ worker.step = "auth"
    /\ LET err == AuthenticateError(worker.conf, resp)
           w == [worker EXCEPT !.authCalls = worker.authCalls + 1,
                               !.cookie = (err = NoError)]
       IN  worker' = IF err # NoError
                     THEN [w EXCEPT !.step = "exit", !.err = err]
                     ELSE [w EXCEPT !.step = "set"]
    /\ UNCHANGED runVars

\* odgclient.SetClient(odgClient): the client of the package is set
SetClient ==
    /\ worker.step = "set"
    /\ worker' = [worker EXCEPT !.step = "run", !.client = TRUE]
    /\ UNCHANGED runVars

\* worker.Run(): the worker takes tasks from the queue. The command reads
\* its config and its paths no more.
Run ==
    /\ worker.step = "run"
    /\ worker' = [worker EXCEPT !.step = "running", !.paths = <<>>,
                                !.conf = ZeroConfig]
    /\ UNCHANGED runVars

\* the running worker takes a task from the queue and calls its handler
HandleTask(k, t) ==
    /\ worker.step = "running"
    /\ StartRun(k, t)

NextWorker ==
    \/ \E paths \in PathSeqs : StartCommand(paths)
    \/ ParseConfig
    \/ \E ok \in BOOLEAN : NewLogger(ok)
    \/ \E ok \in BOOLEAN : NewDB(ok)
    \/ NewOdgClient
    \/ \E resp \in AuthResponses : Authenticate(resp)
    \/ SetClient
    \/ Run
    \/ \E t \in TaskPayloads : HandleTask(kind, t)
    \/ \E rows \in PairRowSeqs(kind) : FetchRows(rows)
    \/ \E e \in {"query", "scan"} : FetchFails(e)
    \/ \E resp \in PairResponses : QueryOld(resp)
    \/ \E resp \in PairResponses : DeleteOld(resp)
    \/ \E resp \in PairResponses : QueryRuntime(resp)
    \/ \E resp \in PairResponses : DeleteRuntime(resp)
    \/ \E resp \in PairResponses : Submit(resp)
    \/ \E resp \in PairResponses : SubmitRuntime(resp)

SpecWorker == Init /\ [][NextWorker]_vars

\* ------------------------------------------------------------------ claims

\* the run ended and the handler returned nil
Succeeded == pc = "done" /\ result = NoError

\* the run ended and the handler returned an error
Aborted == pc = "done" /\ result # NoError

\* the calls of this run of one client method or of the database query
CallsOf(op) == { i \in DOMAIN calls : calls[i].op = op }

\* the requests this run sent to the remote service
Requests == { i \in DOMAIN calls :
                calls[i].op # "FetchResourcesFromDB" /\ calls[i].sent }

\* the finding entries the remote store holds for the component name, the
\* component version and the kind of the run
ScopedFindings ==
    { e \in metadata :
        /\ e.type = DatatypeInventory
        /\ e.artefact.component_name = task.component_name
        /\ e.artefact.component_version = task.component_version
        /\ e.artefact.artefact.artefact_type = kind }

\* the finding entries mapped from the rows of the run
MappedFindings == { FindingEntry(kind, task, items[i]) : i \in DOMAIN items }

\* two rows of the query result are mapped to the same artefact identity
IdentityCollision ==
    \E i, j \in DOMAIN items :
        /\ items[i] # items[j]
        /\ ComponentArtefactID(kind, task, items[i])
             = ComponentArtefactID(kind, task, items[j])

\* C1: after a successful run the finding entries the remote store holds
\* for the component name, version and kind of the run are exactly the
\* entries mapped from the rows of the run.
C1_FindingsAreTheRowsOfTheRun ==
    Succeeded => ScopedFindings = MappedFindings

\* the database query of the run returned rows
Fetched ==
    \E i \in CallsOf("FetchResourcesFromDB") : calls[i].err = NoError

\* the position of a remote operation in the documented flow
Rank(op) ==
    CASE op = "FetchResourcesFromDB" -> 0
      [] op = "QueryArtefactMetadata" -> 1
      [] op = "DeleteArtefactMetadata" -> 2
      [] op = "QueryRuntimeArtefacts" -> 3
      [] op = "DeleteRuntimeArtefacts" -> 4
      [] op = "SubmitArtefactMetadata" -> 5
      [] op = "SubmitRuntimeArtefact" -> 6

\* op was called before the i-th call of the run and returned no error
SucceededBefore(op, i) ==
    \E j \in 1..(i - 1) : calls[j].op = op /\ calls[j].err = NoError

\* C2: the calls of a run follow the order query-old, delete-old,
\* submit-new, submit-runtime-artefacts: delete-old is called only after
\* query-old returned no error, submit-new only after delete-old returned no
\* error, submit-runtime-artefacts only after submit-new returned no error.
C2_FixedOrderOfRemoteOperations ==
    /\ \A i, j \in DOMAIN calls :
         i < j => Rank(calls[i].op) < Rank(calls[j].op)
    /\ \A i \in DOMAIN calls :
         /\ calls[i].op = "DeleteArtefactMetadata"
              => SucceededBefore("QueryArtefactMetadata", i)
         /\ calls[i].op = "SubmitArtefactMetadata"
              => SucceededBefore("DeleteArtefactMetadata", i)
         /\ calls[i].op = "SubmitRuntimeArtefact"
              => SucceededBefore("SubmitArtefactMetadata", i)

\* a run that sent all four requests
C2_Witness ==
    /\ Succeeded
    /\ \A op \in { "QueryArtefactMetadata", "DeleteArtefactMetadata",
                   "SubmitArtefactMetadata", "SubmitRuntimeArtefact" } :
         \E i \in CallsOf(op) : calls[i].sent

\* C3: when a run whose query returned N rows has ended, successfully or
\* not, the discovered-count gauge of its kind equals N.
C3_DiscoveredCountIsRowCount ==
    (pc = "done" /\ Fetched) => gauges[kind].discovered = Len(items)

RepeatsPreviousRun ==
    /\ Succeeded
    /\ prev.ok
    /\ prev.kind = kind
    /\ prev.task = task
    /\ prev.items = items

\* C5: a successful run that repeats the successful run right before it
\* (same payload, same kind, same rows) leaves the remote store as that
\* run left it.
C5_Idempotent ==
    RepeatsPreviousRun => (metadata = metadata0 /\ runtime = runtime0)

\* a repeated run with rows, in a store that holds entries
C5_Witness ==
    RepeatsPreviousRun /\ Len(items) = MaxRows /\ metadata # {}

\* the payload of the run is absent, undecodable, or lacks the query or
\* the component name
InvalidPayload ==
    runs > 0 /\ ( \/ task.raw # "encoded"
                  \/ task.query = ""
                  \/ task.component_name = "" )

\* C6: a run with an invalid payload ends at validation: the database is
\* not queried and no client method is called.
C6_InvalidPayloadStopsAtValidation ==
    InvalidPayload =>
        /\ pc = "done"
        /\ result.class = "validation"
        /\ calls = <<>>
        /\ metadata = metadata0
        /\ runtime = runtime0

\* a run whose payload has no component name
C6_Witness ==
    InvalidPayload /\ task.raw = "encoded" /\ task.query # "" /\ pc = "done"

\* C7: every validation failure is returned wrapped with skip-retry.
C7_ValidationFailureIsNonRetryable ==
    /\ InvalidPayload => (Aborted /\ result.skipRetry)
    /\ (pc = "done" /\ result.class = "validation") => result.skipRetry

\* a run that was given no payload
C7_Witness == Aborted /\ task.raw = "nil" /\ result.name = "ErrNoPayload"

\* the last blocking call of the run
LastCall == calls[Len(calls)]

\* C8: an API error with status 500 is returned wrapped with skip-retry,
\* the API error still in it; an API error with any other status is returned
\* as it is.
C8_RetryClassificationByDenylist ==
    (pc = "done" /\ calls # <<>> /\ LastCall.err.class = "api") =>
        result = [LastCall.err EXCEPT !.skipRetry = (LastCall.err.code = 500)]

\* a run that ended with a 503 of the runtime-artefact submit
C8_Witness ==
    /\ pc = "done"
    /\ calls # <<>>
    /\ LastCall.op = "SubmitRuntimeArtefact"
    /\ LastCall.err = APIError(503)
    /\ ~result.skipRetry

\* the old-entries query of the run failed
QueryOldFailed ==
    \E i \in CallsOf("QueryArtefactMetadata") : calls[i].err # NoError

\* C9: a run whose old-entries query fails aborts without calling delete
\* or submit, and leaves the remote store as it was.
C9_FailedQueryLeavesRemoteUnchanged ==
    QueryOldFailed =>
        /\ Aborted
        /\ \A i \in DOMAIN calls :
             calls[i].op \in {"FetchResourcesFromDB", "QueryArtefactMetadata"}
        /\ metadata = metadata0
        /\ runtime = runtime0

\* a failed query in a run with rows to submit and entries to delete
C9_Witness ==
    /\ QueryOldFailed
    /\ items # <<>>
    /\ ScopedFindings # {}

\* C10: every step is called at most once in a run; a step that fails is
\* the last one called, and the handler returns its error; the handler
\* returns nil only if every step it called returned no error.
C10_NoRetryAndAbortAtFirstFailure ==
    /\ \A i, j \in DOMAIN calls : calls[i].op = calls[j].op => i = j
    /\ \A i \in DOMAIN calls :
         calls[i].err # NoError =>
            /\ i = Len(calls)
            /\ Aborted
            /\ [result EXCEPT !.skipRetry = FALSE] = calls[i].err
    /\ Succeeded => \A i \in DOMAIN calls : calls[i].err = NoError

\* a run that failed at its last step, after the findings were submitted
C10_Witness ==
    /\ Aborted
    /\ calls # <<>>
    /\ LastCall.op = "SubmitRuntimeArtefact"
    /\ LastCall.sent
    /\ Len(calls) = 7

\* FetchResourcesFromDB returned an error
FetchFailed ==
    \E i \in CallsOf("FetchResourcesFromDB") : calls[i].err # NoError

\* C11: a run whose database query fails aborts with the database error,
\* not wrapped with skip-retry, and makes no call to the remote service.
C11_ExtractionFailureIsRetryable ==
    FetchFailed =>
        /\ Aborted
        /\ result.class = "db"
        /\ ~result.skipRetry
        /\ Len(calls) = 1
        /\ metadata = metadata0
        /\ runtime = runtime0

\* a run whose query the database rejected
C11_Witness ==
    FetchFailed /\ result.name = "query" /\ metadata # {}

\* C12: a run whose query fails because a row cannot be scanned into the
\* destination shape of the kind returns an error wrapped with skip-retry.
C12_SchemaMismatchIsNonRetryable ==
    (FetchFailed /\ LastCall.err.name = "scan") => result.skipRetry

\* the decimal form of the instance ids of the GCP rows
Decimal(n) == CASE n = 7 -> "7" [] n = 12 -> "12"

\* the extra id the projection rule of the kind gives for a row
ProjectedExtraID(row) ==
    CASE kind = "aws/virtual-machine" ->
            [vpc_id |-> row.vpc_id, region_name |-> row.region_name,
             account_id |-> row.account_id]
      [] kind = "az/virtual-machine" ->
            [subscription_id |-> row.subscription_id,
             resource_group |-> row.resource_group,
             location |-> row.location]
      [] kind = "gcp/virtual-machine" ->
            [instance_id |-> Decimal(row.instance_id),
             project_id |-> row.project_id]
      [] kind = "gcp/public-ip-address" ->
            [project_id |-> row.project_id, forwarding_rule |-> row.name]
      [] kind = "openstack/virtual-machine" ->
            [server_id |-> row.server_id, project_id |-> row.project_id]

\* the row the j-th submitted entry was built from
RowOf(j) ==
    items[IF Len(artefacts) = 2 * Len(items) THEN (j + 1) \div 2 ELSE j]

\* the submit-findings request of the run was sent
SubmitSent ==
    \E i \in CallsOf("SubmitArtefactMetadata") : calls[i].sent

\* C13: the extra id of every submitted entry (finding, scan info, runtime
\* artefact) has exactly the keys of the projection of its kind, each with
\* the value of the row the entry was built from.
C13_ExtraIDIsTheProjectionOfTheKind ==
    SubmitSent =>
        /\ \A j \in DOMAIN artefacts :
             artefacts[j].artefact.artefact.artefact_extra_id
                = ProjectedExtraID(RowOf(j))
        /\ \A j \in DOMAIN runtimeArtefacts :
             runtimeArtefacts[j].artefact.artefact_extra_id
                = ProjectedExtraID(items[j])

\* two different rows were submitted and are stored
C13_Witness ==
    /\ Succeeded
    /\ SubmitSent
    /\ Len(items) = 2
    /\ items[1] # items[2]
    /\ \A j \in DOMAIN artefacts : artefacts[j] \in metadata

\* the entries of datatype finding/inventory the run built
BuiltFindings ==
    { j \in DOMAIN artefacts : artefacts[j].type = "finding/inventory" }

\* a successful run of the AWS handler whose query returned one row
OneRowRunAWS ==
    /\ kind = "aws/virtual-machine"
    /\ Succeeded
    /\ Len(items) = 1

\* what C14 says of such a run, but for the number of entries of the submit
OneFindingOneQueryOneSubmit ==
    /\ Cardinality(BuiltFindings) = 1
    /\ \A j \in BuiltFindings :
         artefacts[j].data.resource_name = items[1].instance_id
    /\ Cardinality(CallsOf("QueryArtefactMetadata")) = 1
    /\ Cardinality(CallsOf("SubmitArtefactMetadata")) = 1
    /\ SubmitSent
    /\ gauges[kind].discovered = 1
    /\ gauges[kind].reported = 1

\* C14 as stated: a successful run of the AWS handler over one row builds
\* one finding named by the instance id, makes one old-entries query and one
\* submit, the submit carries one entry, and both gauges end at 1.
C14_OneRowOneEntry ==
    OneRowRunAWS => (OneFindingOneQueryOneSubmit /\ Len(artefacts) = 1)

\* C14 as amended: the same, but the submit carries two entries, the
\* finding and the scan info of the same artefact identity.
C14_OneRowTwoEntries ==
    OneRowRunAWS =>
        /\ OneFindingOneQueryOneSubmit
        /\ Len(artefacts) = 2
        /\ artefacts[1].type = "finding/inventory"
        /\ artefacts[2].type = "meta/artefact_scan_info"
        /\ artefacts[2].artefact = artefacts[1].artefact
        /\ { artefacts[1], artefacts[2] } \subseteq metadata

\* a one-row run in a store that held entries of earlier runs
C14_Witness ==
    OneRowRunAWS /\ items[1].instance_id = "i-1" /\ metadata0 # {}

\* C15: after a successful run over N >= 1 rows the reported-count gauge
\* of the kind of the run equals N.
C15_ReportedCountIsRowCount ==
    (Succeeded /\ Len(items) >= 1) => gauges[kind].reported = Len(items)

\* C16: a run that aborts leaves the reported-count gauge as it was before
\* the run; the gauge changes only in a run whose submit returned nil; a run
\* whose payload is invalid or whose database query fails leaves the
\* discovered-count gauge as it was too.
C16_ReportedCountOnlyAfterSubmit ==
    /\ Aborted => gauges[kind].reported = gauges0[kind].reported
    /\ gauges[kind].reported # gauges0[kind].reported =>
         \E i \in CallsOf("SubmitArtefactMetadata") : calls[i].err = NoError
    /\ (FetchFailed \/ InvalidPayload) => gauges = gauges0

\* a run that failed at the submit, after a run that had reported two rows
C16_Witness ==
    /\ Aborted
    /\ calls # <<>>
    /\ LastCall.op = "SubmitArtefactMetadata"
    /\ Len(items) = 1
    /\ gauges0[kind].reported = 2

\* C17: the discovered-count gauge of the kind is the row count of the
\* latest run that completed its database query (this run if it has, the
\* value before this run otherwise), and the gauges of the other kinds are
\* never written by a run of this kind.
C17_GaugesAreOverwritten ==
    /\ Fetched => gauges[kind].discovered = Len(items)
    /\ (runs > 0 /\ ~Fetched) =>
         gauges[kind].discovered = gauges0[kind].discovered
    /\ \A k \in Kinds \ {kind} : gauges[k] = gauges0[k]

\* the label set C18 names for the payload of the run
ThreeLabels ==
    [l \in {"created-by", "resource-kind", "component-name"} |->
        CASE l = "created-by" -> "inventory"
          [] l = "resource-kind" -> kind
          [] l = "component-name" -> task.component_name]

\* C18: the handlers that track runtime artefacts query, delete and submit
\* them with the labels created-by = inventory, resource-kind = the kind of
\* the handler, component-name = the component name of the payload.
C18_RuntimeArtefactLabels ==
    ( /\ kind \in { "aws/virtual-machine", "gcp/virtual-machine",
                    "openstack/virtual-machine" }
      /\ CallsOf("QueryRuntimeArtefacts") # {} )
    => labels = ThreeLabels

\* the two handlers of SpecPair are at work and are of different kinds
DifferentKinds == pair # <<>> /\ pair[1].kind # pair[2].kind

\* the two handlers of SpecPair are at work and are of the same kind
SameKind == pair # <<>> /\ pair[1].kind = pair[2].kind

\* handler r of SpecPair returned nil
PairSucceeded(r) == pair[r].pc = "done" /\ pair[r].result = NoError

\* the stored metadata entries and runtime artefacts of kind k
MetadataOfKind(store, k) ==
    { e \in store : e.artefact.artefact.artefact_type = k }

RuntimeOfKind(store, k) ==
    { ra \in store : ra.artefact.artefact.artefact_type = k }

\* the metadata store and the runtime-artefact store after a run of kind k
\* over the rows its, all of whose steps succeed, on its own
MetadataAfterRun(store, k, its) ==
    LET old == RemoteQueryMetadata(store, "finding/inventory",
                                   OldEntriesQuery(k, PairPayload))
    IN  RemotePutMetadata(RemoteDeleteMetadata(store, old),
                          BuildArtefacts(k, PairPayload, its))

RuntimeAfterRun(store, k, its) ==
    IF TracksRuntimeArtefacts(k)
    THEN LET old == RemoteQueryRuntime(store, RuntimeLabels(k, PairPayload))
         IN  RemotePutRuntime(
                RemoteDeleteRuntime(store, { RuntimeName(ra) : ra \in old }),
                RuntimeLabels(k, PairPayload),
                BuildRuntimeArtefacts(k, PairPayload, its))
    ELSE store

\* the stores after run a and then run b of SpecPair, one after the other
MetadataInOrder(a, b) ==
    MetadataAfterRun(
        MetadataAfterRun(metadata0, pair[a].kind, pair[a].items),
        pair[b].kind, pair[b].items)

RuntimeInOrder(a, b) ==
    RuntimeAfterRun(
        RuntimeAfterRun(runtime0, pair[a].kind, pair[a].items),
        pair[b].kind, pair[b].items)

\* when both handlers of different kinds have returned nil, the stores are
\* what the two runs leave when run one after the other, in either order
SerialOutcome ==
    (DifferentKinds /\ PairSucceeded(1) /\ PairSucceeded(2)) =>
        /\ metadata = MetadataInOrder(1, 2)
        /\ metadata = MetadataInOrder(2, 1)
        /\ runtime = RuntimeInOrder(1, 2)
        /\ runtime = RuntimeInOrder(2, 1)

\* a step of one handler leaves the entries and the runtime artefacts of
\* the kind of the other handler as they are
NoForeignWrite ==
    DifferentKinds =>
        \A r \in 1..2 :
            pair'[r] # pair[r] =>
                LET other == pair[3 - r].kind
                IN  /\ MetadataOfKind(metadata', other)
                         = MetadataOfKind(metadata, other)
                    /\ RuntimeOfKind(runtime', other)
                         = RuntimeOfKind(runtime, other)

\* C19: two runs of different kinds for one component, their steps
\* interleaved in any order: no step of one run changes a stored entry or
\* runtime artefact of the kind of the other, and when both have succeeded
\* the remote state is the one of the two runs done one after the other, in
\* either order.
C19_DifferentKindsDoNotInterfere ==
    []SerialOutcome /\ [][NoForeignWrite]_vars

\* both handlers returned nil, each over a row, in a store that held
\* entries of both kinds, and each deleted old entries
C19_Witness ==
    /\ DifferentKinds
    /\ PairSucceeded(1) /\ PairSucceeded(2)
    /\ pair[1].items # <<>> /\ pair[2].items # <<>>
    /\ pair[1].deleted /\ pair[2].deleted
    /\ TracksRuntimeArtefacts(pair[1].kind)
    /\ TracksRuntimeArtefacts(pair[2].kind)

\* the findings handler r of SpecPair built that are not in the store
\* (no entry is stored under their key)
LostFindings(r) ==
    { f \in { FindingEntry(pair[r].kind, PairPayload, pair[r].items[i]) :
                i \in DOMAIN pair[r].items } :
        \A e \in metadata : EntryKey(e) # EntryKey(f) }

\* C20: two overlapping runs of one kind are not kept apart: a run can
\* return nil while findings it submitted are not in the store, and then
\* the delete request of the other run, sent with the entries that run had
\* queried, is what removed them.
C20_SameKindRunsDeleteEachOthersFindings ==
    SameKind =>
        \A r \in 1..2 :
            PairSucceeded(r) =>
                \A f \in LostFindings(r) :
                    /\ pair[3 - r].deleted
                    /\ \E d \in pair[3 - r].oldEntries :
                         EntryKey(d) = EntryKey(f)

\* a run of the AWS handler has returned nil and reported its row, and
\* the finding of the row is not in the store
C20_Witness ==
    /\ SameKind
    /\ pair[1].kind = "aws/virtual-machine"
    /\ PairSucceeded(1)
    /\ Len(pair[1].items) = 1
    /\ gauges[pair[1].kind].reported = Len(pair[1].items)
    /\ LostFindings(1) # {}

\* ------------------------------------------------------ recovery by retry

\* the run that ended retried a run of the same payload and the same rows,
\* which had failed at a call to the service
RetriedSameRun ==
    /\ aborted.retry
    /\ aborted.task = task
    /\ task = PairPayload
    /\ aborted.items = items

\* C21: a run that failed at a call to the service, whatever the service
\* had applied by then, is repaired by retrying it: when the retry of the
\* same payload and the same rows returns nil, the stores of the service
\* are those one successful run would have left, started from the stores
\* the failed run started from.
C21_RetryRepairsAnAbortedRun ==
    Succeeded /\ RetriedSameRun =>
        /\ metadata = MetadataAfterRun(aborted.metadata0, kind, items)
        /\ runtime = RuntimeAfterRun(aborted.runtime0, kind, items)

\* the failed run had removed some of the old entries and not the others,
\* and its retry has returned nil
C21_Witness ==
    /\ Succeeded
    /\ RetriedSameRun
    /\ metadata0 # aborted.metadata0
    /\ metadata0 \subseteq aborted.metadata0
    /\ RemoteQueryMetadata(metadata0, "finding/inventory",
                           OldEntriesQuery(kind, task)) # {}
    /\ Len(items) > 0

\* ------------------------------------------------ errors of the client

\* the calls of this run to the service that returned an error
FailedRemoteCalls ==
    { i \in DOMAIN calls :
        calls[i].op # "FetchResourcesFromDB" /\ calls[i].err # NoError }

NewCall == calls'[Len(calls')]

\* the step is a call of a client method with no items
EmptyListCall ==
    /\ Len(calls') = Len(calls) + 1
    /\ \/ pc = "delete_old" /\ oldEntries = {}
       \/ pc = "submit" /\ Len(artefacts) = 0
       \/ pc = "submit_rt" /\ Len(runtimeArtefacts) = 0

\* a call with no items sends no request, returns nil and changes nothing
\* in the stores of the service
EmptyListCallIsNoOp ==
    EmptyListCall =>
        /\ ~NewCall.sent
        /\ NewCall.err = NoError
        /\ UNCHANGED remoteVars

\* QueryArtefactMetadata with no items returns no entries and no error and
\* sends no request, whatever the store holds and the service would answer
EmptyQueryIsNoOp ==
    \A resp \in Responses :
        QueryArtefactMetadata(metadata, DatatypeInventory, {}, resp)
            = [sent |-> FALSE, err |-> NoError, result |-> {}]

\* C23: DeleteArtefactMetadata, SubmitArtefactMetadata and
\* SubmitRuntimeArtefact called with no items send no request, return nil
\* and leave the stores of the service as they are; QueryArtefactMetadata
\* called with no items returns nothing, without a request.
C23_EmptyListCallsAreNoOps ==
    []EmptyQueryIsNoOp /\ [][EmptyListCallIsNoOp]_vars

\* a run over a store with entries has called each of the three methods
\* with no items
C23_Witness ==
    /\ Succeeded
    /\ metadata # {}
    /\ runtime # {}
    /\ \A op \in { "DeleteArtefactMetadata", "SubmitArtefactMetadata",
                    "SubmitRuntimeArtefact" } :
         \E i \in CallsOf(op) : ~calls[i].sent

\* ------------------------------------------------ identity of a resource

\* what the provider identifies a resource by
NativeID(k, item) ==
    CASE k = ResourceKindVirtualMachineAWS -> << item.instance_id >>
      [] k = ResourceKindVirtualMachineGCP -> << item.instance_id >>
      [] k = ResourceKindVirtualMachineAzure ->
            << item.subscription_id, item.resource_group, item.name >>
      [] k = ResourceKindVirtualMachineOpenStack -> << item.server_id >>
      [] k = ResourceKindIPAddressGCP -> << item.rule_id >>

\* C24: two rows of a run that differ in what the provider identifies the
\* resource by are mapped to different artefact identities.
C24_MapperIsInjective ==
    \A i, j \in DOMAIN items :
        NativeID(kind, items[i]) # NativeID(kind, items[j])
            => ComponentArtefactID(kind, task, items[i])
                 # ComponentArtefactID(kind, task, items[j])

\* --------------------------------------------- runs do not share state

\* the run that ended was given the payload and the rows of the run before
\* it, and the service answered its calls as it answered those of the run
\* before: the same error or none on every call both runs made, and the
\* same entries and runtime artefacts on the queries
SameInputsAndResponses ==
    /\ pc = "done"
    /\ earlier.ended
    /\ earlier.kind = kind
    /\ earlier.task = task
    /\ earlier.items = items
    /\ earlier.oldEntries = oldEntries
    /\ earlier.oldRuntimeArtefacts = oldRuntimeArtefacts
    /\ \A i \in DOMAIN calls \cap DOMAIN earlier.calls :
         calls[i].err = earlier.calls[i].err

Running == pc \notin { "idle", "done" }

\* the handler returned nil, or it returned an error, and not both
DoneOrAborted ==
    /\ pc = "done"
    /\ Succeeded # Aborted
    /\ Aborted => result.class \in { "validation", "db", "api", "other" }

\* no blocking call is made twice in a run
NoCallTwice ==
    \A i, j \in DOMAIN calls : i # j => calls[i].op # calls[j].op

\* C26: a run whose blocking calls all return ends, with nil or with an
\* error, and makes none of its calls twice on the way.
C26_EveryRunTerminates ==
    /\ Running ~> DoneOrAborted
    /\ [](pc = "done" => DoneOrAborted)
    /\ []NoCallTwice

\* a run has gone through all seven calls and returned nil
C26_Witness ==
    /\ Succeeded
    /\ Len(calls) = 7
    /\ Len(items) > 0

\* ------------------------------------------------------- no old entries

\* the entries the store holds for the component name, the component
\* version and the artefact type of the run, findings and scan infos
ScopedEntries ==
    { e \in metadata :
        /\ e.artefact.component_name = task.component_name
        /\ e.artefact.component_version = task.component_version
        /\ e.artefact.artefact.artefact_type = kind }

\* C27: after a successful run every entry the store holds for the component
\* name, the component version and the artefact type, finding or scan info,
\* is one this run submitted.
C27_NoOldEntriesRemain ==
    Succeeded =>
        ScopedEntries \subseteq { artefacts[i] : i \in DOMAIN artefacts }

\* ------------------------------------- runtime artefacts of other components

\* the runtime artefacts of the kind of the run which the store held for
\* other component names when the run started
ForeignRuntimeArtefacts ==
    { ra \in runtime0 :
        /\ ra.artefact.artefact.artefact_type = kind
        /\ ra.artefact.component_name # task.component_name }

\* C28: after a successful run for one component name the store still
\* holds the runtime artefacts of the same kind which runs for other
\* component names had submitted.
C28_RuntimeArtefactsOfOtherComponentsAreKept ==
    Succeeded => ForeignRuntimeArtefacts \subseteq runtime

\* --------------------------------------------- what a run deletes

\* the keys of the entries the step removed from the store
RemovedKeys ==
    { EntryKey(e) : e \in metadata } \ { EntryKey(e) : e \in metadata' }

\* the entries the query returned are findings of the component name, the
\* component version and the resource kind of the run
OldEntriesAreScoped ==
    \A e \in oldEntries :
        /\ e.type = DatatypeInventory
        /\ e.artefact.component_name = task.component_name
        /\ e.artefact.component_version = task.component_version
        /\ e.artefact.artefact_kind = ArtefactKindRuntime
        /\ e.artefact.artefact.artefact_type = kind

\* a step removes entries only in the delete call, and only entries the
\* query of the run returned
DeletesOnlyQueried ==
    RemovedKeys # {} =>
        /\ pc = "delete_old"
        /\ RemovedKeys \subseteq { EntryKey(e) : e \in oldEntries }

\* C29: the old entries a run gets from its query are findings of its
\* component name, component version and resource kind, and the run removes
\* no entry from the store but those, in its delete call.
C29_DeletesOnlyWhatTheQueryReturned ==
    []OldEntriesAreScoped /\ [][DeletesOnlyQueried]_vars

\* a run has deleted the entries its query returned, and the store holds
\* findings of another component version and of another component name
C29_Witness ==
    /\ Succeeded
    /\ oldEntries # {}
    /\ oldEntries \cap metadata = {}
    /\ \E e \in metadata :
         /\ e.type = DatatypeInventory
         /\ e.artefact.component_name = task.component_name
         /\ e.artefact.component_version # task.component_version
    /\ \E e \in metadata :
         /\ e.type = DatatypeInventory
         /\ e.artefact.component_name # task.component_name

\* ---------------------------------------------------- a run without rows

\* the call of op in this run that was answered without error
Answered(op) == \E i \in CallsOf(op) : calls[i].err = NoError

\* C30: a run whose query returned no rows and which returned nil has
\* queried and deleted the old findings, and for the kinds with runtime
\* artefacts the old runtime artefacts: the store holds no finding of the
\* component name, the component version and the kind, and no runtime
\* artefact with the labels of the run.
C30_EmptyDiscoveryCleansUp ==
    (Succeeded /\ Len(items) = 0) =>
        /\ Answered("QueryArtefactMetadata")
        /\ Answered("DeleteArtefactMetadata")
        /\ ScopedFindings = {}
        /\ TracksRuntimeArtefacts(kind) =>
             /\ Answered("QueryRuntimeArtefacts")
             /\ Answered("DeleteRuntimeArtefacts")
             /\ RemoteQueryRuntime(runtime, labels) = {}

\* a run of the GCP public address handler without rows has deleted the
\* findings an earlier run had reported
C30_Witness ==
    /\ Succeeded
    /\ Len(items) = 0
    /\ kind = ResourceKindIPAddressGCP
    /\ oldEntries # {}
    /\ \E i \in CallsOf("DeleteArtefactMetadata") : calls[i].sent

\* ------------------------------------- runtime artefact delete, no names

\* C31: a run whose runtime-artefact query returned nothing sends no
\* runtime-artefact delete request: no delete request without a name goes
\* to the service.
C31_NoDeleteRequestWithoutNames ==
    \A i \in CallsOf("DeleteRuntimeArtefacts") :
        oldRuntimeArtefacts = {} => ~calls[i].sent

\* ------------------------------------------------ errors without a status

\* the errors of a call to the service that are no *APIError: what
\* httpClient.Do returns (no connection, a timeout, the context cancelled)
\* and what reading or decoding the body returns
PlainErrors == { TransportError, [TransportError EXCEPT !.name = "decode"] }

\* C32: a call to the service that fails with an error that is no
\* *APIError is the last call of the run, and the handler returns that
\* error as it is, without skip-retry; MaybeSkipRetry leaves every such
\* error as it is.
C32_PlainErrorAbortsAndIsRetryable ==
    /\ \A e \in PlainErrors : MaybeSkipRetry(e) = e /\ ~e.skipRetry
    /\ \A i \in FailedRemoteCalls :
         calls[i].err.class = "other" =>
            /\ calls[i].err \in PlainErrors
            /\ i = Len(calls)
            /\ pc = "done"
            /\ result = calls[i].err
            /\ ~result.skipRetry

\* the delete of the old entries ended without a response although the
\* service had carried it out, and the run ended there
C32_Witness ==
    /\ Aborted
    /\ calls # <<>>
    /\ LastCall.op = "DeleteArtefactMetadata"
    /\ LastCall.err = TransportError
    /\ metadata # metadata0

\* --------------------------------------------- accepted status codes

\* the status codes C33 names for each method
ClaimedStatuses(op) ==
    CASE op = "QueryArtefactMetadata" -> { 200 }
      [] op = "DeleteArtefactMetadata" -> { 204 }
      [] op = "SubmitArtefactMetadata" -> { 200, 201 }
      [] op = "QueryRuntimeArtefacts" -> { 200 }
      [] op = "DeleteRuntimeArtefacts" -> { 200, 204 }
      [] op = "SubmitRuntimeArtefact" -> { 200, 201 }

\* a method of the client sent a request and got a response
Answered33 == reply.sent /\ reply.transport = "ok"

\* C33: a method of the client that got a response returns nil exactly
\* when the status is one of those named for it, and for every other
\* status an *APIError with that status and no result.
C33_SuccessExactlyOnNamedStatuses ==
    Answered33 =>
        /\ (reply.err = NoError) <=> (reply.status \in ClaimedStatuses(reply.op))
        /\ reply.status \notin ClaimedStatuses(reply.op) =>
             /\ reply.err = APIError(reply.status)
             /\ reply.result = {}

\* ------------------------------------------- three records, one identity

\* the finding entry, the scan-info entry and the runtime artefact the
\* handler built from row j
FindingOf(j) == artefacts[2 * j - 1]
ScanInfoOf(j) == artefacts[2 * j]
RuntimeArtefactOf(j) == runtimeArtefacts[j]

\* the three records of row j carry one identity, made of the payload and
\* the row
OneIdentity(j) ==
    /\ FindingOf(j).type = DatatypeInventory
    /\ ScanInfoOf(j).type = DatatypeArtefactScanInfo
    /\ FindingOf(j).artefact = ScanInfoOf(j).artefact
    /\ FindingOf(j).artefact = RuntimeArtefactOf(j)
    /\ RuntimeArtefactOf(j).component_name = task.component_name
    /\ RuntimeArtefactOf(j).component_version = task.component_version
    /\ RuntimeArtefactOf(j).artefact_kind = ArtefactKindRuntime
    /\ RuntimeArtefactOf(j).artefact.artefact_type = kind
    /\ RuntimeArtefactOf(j).artefact.artefact_name
          = ArtefactName(kind, items[j])
    /\ RuntimeArtefactOf(j).artefact.artefact_version
          = task.component_version
    /\ RuntimeArtefactOf(j).artefact.artefact_extra_id
          = ProjectedExtraID(items[j])

\* what the stores hold of row j after the run: a finding, a scan info and
\* a runtime artefact of that identity
StoredTogether(j) ==
    /\ \E e \in metadata :
         e.type = DatatypeInventory /\ e.artefact = RuntimeArtefactOf(j)
    /\ \E e \in metadata :
         e.type = DatatypeArtefactScanInfo
            /\ e.artefact = RuntimeArtefactOf(j)
    /\ \E ra \in runtime : ra.artefact = RuntimeArtefactOf(j)

\* C34: in the handlers of the AWS, GCP and OpenStack virtual machines the
\* finding entry, the scan-info entry and the runtime artefact built from a
\* row carry the same artefact identity, and after a successful run the
\* stores hold all three under it.
C34_ThreeRecordsOneIdentity ==
    (TracksRuntimeArtefacts(kind) /\ Fetched) =>
        /\ Len(artefacts) = 2 * Len(items)
        /\ Len(runtimeArtefacts) = Len(items)
        /\ \A j \in DOMAIN items : OneIdentity(j)
        /\ Succeeded => \A j \in DOMAIN items : StoredTogether(j)

\* a run of the GCP handler has stored the records of two instances
C34_Witness ==
    /\ Succeeded
    /\ kind = ResourceKindVirtualMachineGCP
    /\ Len(items) = 2
    /\ items[1] # items[2]
    /\ \A j \in DOMAIN items : StoredTogether(j)

\* ---------------------------------------------- the content of a finding

\* the identifier C35 names for a row of each kind
ClaimedResourceID(k, row) ==
    CASE k = ResourceKindVirtualMachineAWS -> row.instance_id
      [] k = ResourceKindVirtualMachineAzure -> row.name
      [] k = ResourceKindVirtualMachineGCP -> Decimal(row.instance_id)
      [] k = ResourceKindVirtualMachineOpenStack -> row.server_id
      [] k = ResourceKindIPAddressGCP -> row.project_id \o ":" \o row.name

\* the provider name C35 expects of each handler
ClaimedProvider(k) ==
    CASE k = ResourceKindVirtualMachineAWS -> "aws"
      [] k = ResourceKindVirtualMachineAzure -> "azure"
      [] k = ResourceKindVirtualMachineGCP -> "gcp"
      [] k = ResourceKindVirtualMachineOpenStack -> "openstack"
      [] k = ResourceKindIPAddressGCP -> "gcp"

\* severity, provider name, resource kind and resource name of the
\* finding built from the row of entry j
FindingDataAsClaimed(j) ==
    /\ artefacts[j].data.severity = "HIGH"
    /\ artefacts[j].data.provider_name = ClaimedProvider(kind)
    /\ artefacts[j].data.resource_kind = kind
    /\ artefacts[j].data.resource_name = ClaimedResourceID(kind, RowOf(j))

\* the artefact name of the identity of entry j is that identifier too
ArtefactNameAsClaimed(j) ==
    artefacts[j].artefact.artefact.artefact_name
        = ClaimedResourceID(kind, RowOf(j))

\* C35: every finding a handler builds has severity HIGH, the provider
\* name and the resource kind of the handler, and the identifier of the
\* row both as its resource name and as the artefact name of its identity.
C35_FindingNamesTheResource ==
    \A j \in BuiltFindings :
        FindingDataAsClaimed(j) /\ ArtefactNameAsClaimed(j)

\* ------------------------------------------------ the worker's start-up

\* the worker handles tasks, or a run was started
HandlesTasks == worker.step = "running" \/ runs > 0 \/ pc # "idle"

\* what holds of the worker process in every state
StartedInOrder ==
    /\ worker.authCalls <= 1
    /\ worker.client => worker.step \in { "run", "running" }
    /\ HandlesTasks => worker.step = "running" /\ worker.client
    /\ (worker.client /\ worker.auth # ODGAuthMethodNone) =>
           worker.authCalls = 1 /\ worker.cookie
    /\ worker.step = "exit" =>
           worker.err # NoError /\ ~worker.client /\ runs = 0

\* a step that calls Authenticate is taken before the client is set and
\* before a task is handled; a step of a run does not call it
AuthenticatesFirst ==
    worker'.authCalls # worker.authCalls =>
        /\ worker.authCalls = 0
        /\ ~worker.client /\ ~worker'.client
        /\ ~HandlesTasks /\ ~HandlesTasks'

\* C36: with an auth method other than `none' the start command calls
\* Authenticate once, before it sets the client of the package and before
\* the worker handles a task; where newOdgClient or Authenticate fails the
\* command ends, the client is not set and no run is made; the runs of the
\* worker do not call Authenticate.
C36_AuthenticatesOnceBeforeTheWorkerRuns ==
    []StartedInOrder /\ [][AuthenticatesFirst]_vars

\* a worker that authenticated with `github' has run a handler to its end
C36_Witness ==
    /\ worker.step = "running"
    /\ worker.auth = ODGAuthMethodGithub
    /\ worker.authCalls = 1
    /\ Succeeded
    /\ runs = MaxRuns

\* ------------------------------------------------ parsing the configuration

\* config.Parse has returned to the start command, which still holds the
\* paths it gave and the config it got
Parsed ==
    worker.step \in { "logger", "db", "client", "auth", "set", "run", "exit" }

\* the places of the non-empty paths among the paths given
NonEmptyPaths == { i \in DOMAIN worker.paths : worker.paths[i] # "" }

\* the file at place i of the paths
FileAt(i) == ConfigFiles[worker.paths[i]]

\* the value of key f once the files up to place i are merged in order:
\* that of the last of them that holds the key
Accumulated(i, f) ==
    LET holders == { j \in NonEmptyPaths : j <= i /\ FileAt(j)[f] # Absent }
    IN  IF holders = {} THEN ""
        ELSE FileAt(CHOOSE j \in holders : \A h \in holders : h <= j)[f]

\* Parse fails at place i: the file cannot be parsed, or the version
\* accumulated after it is not the supported one
FailsAt(i) ==
    /\ i \in NonEmptyPaths
    /\ \/ ~FileAt(i).readable
       \/ Accumulated(i, "version") # ConfigFormatVersion

\* the error C37 names for a failure at place i
ClaimedParseError(i) ==
    IF ~FileAt(i).readable THEN StartError("ParseFileInto")
    ELSE IF Accumulated(i, "version") = "" THEN ErrNoConfigVersion
    ELSE ErrUnsupportedVersion

\* C37: config.Parse merges the files of the non-empty paths in order, a
\* later file overriding the settings of the earlier ones, and fails at
\* the first path after which the accumulated version is empty
\* (ErrNoConfigVersion) or is not v1alpha1 (ErrUnsupportedVersion), or whose
\* file cannot be parsed; it returns the merged config without an error
\* only when no path fails.
C37_ParseMergesInOrderAndChecksVersion ==
    Parsed =>
        IF \E i \in DOMAIN worker.paths : FailsAt(i)
        THEN LET first == CHOOSE i \in DOMAIN worker.paths :
                            /\ FailsAt(i)
                            /\ \A j \in DOMAIN worker.paths :
                                 FailsAt(j) => i <= j
             IN  /\ worker.step = "exit"
                 /\ worker.err = ClaimedParseError(first)
        ELSE /\ worker.err \notin { ErrNoConfigVersion, ErrUnsupportedVersion,
                                    StartError("ParseFileInto") }
             /\ worker.conf =
                  [f \in DOMAIN ZeroConfig |->
                     Accumulated(Len(worker.paths), f)]

\* Parse has merged two files: the auth method of the second overrides
\* that of the first, whose github url is kept
C37_Witness ==
    /\ worker.step = "logger"
    /\ worker.paths = << "github.yaml", "base.yaml" >>
    /\ worker.conf.method = ODGAuthMethodNone
    /\ worker.conf.url = "https://api.github.com"
    /\ worker.conf.version = ConfigFormatVersion

====
